---- MODULE Spec2Model ----
(***************************************************************************)
(* Model of the sentiment engine of the feedback system                    *)
(* (backend/app/services/sentiment_service.py, class SentimentAnalyzer).   *)
(*                                                                         *)
(* A text is a sequence of lower-case words joined by single spaces.  The  *)
(* words come from Vocab, a sample of the analyzer's dictionaries; every   *)
(* dictionary, word list and regular expression of the source is modelled  *)
(* by the entries that can match a text over Vocab (an entry that needs a  *)
(* word outside Vocab cannot match and is left out).  The source lower-    *)
(* cases the text before every English test, so case is not modelled.      *)
(* Texts of fifty words and more are built from the word lists of the      *)
(* long-text decision, LongVocab added, and padded with a word no list     *)
(* holds.                                                                  *)
(*                                                                         *)
(* Scores are counted in half points (the source adds 1, 1.5 and 0.5) and  *)
(* confidences in tenths of a percent (750 is 0.75, reported as 75.0).     *)
(***************************************************************************)
EXTENDS Integers, Sequences, FiniteSets, Bags, TLC

\* ------------------------------------------------------------------ bounds
\* longest text, in words
MaxLen == 3
\* longest batch handed to analyze_batch
MaxBatch == 2
\* number of midnights that pass while the process runs
MaxDay == 1

\* ------------------------------------------------------------- vocabulary
\* Arabic words are written in transliteration:
\*   mumtaz = U+0645 U+0645 U+062A U+0627 U+0632 (excellent)
\*   sayyi  = U+0633 U+064A U+0621               (bad)
\*   ghayr  = U+063A U+064A U+0631               (not / un-)
\*   aadi   = U+0639 U+0627 U+062F U+064A        (ordinary)
\*   raai   = U+0631 U+0627 U+0626 U+0639        (wonderful)
\*   muzij  = U+0645 U+0632 U+0639 U+062C        (annoying)
EnglishVocab == {"good", "bad", "terrible", "delayed", "cramped", "mediocre",
                 "but", "not", "okay", "fine", "satisfactory", "food"}
ArabicVocab == {"mumtaz", "sayyi", "ghayr", "aadi"}
Vocab == EnglishVocab \cup ArabicVocab
\* further English words, which only the long texts hold
LongVocab == {"excellent", "fantastic", "amazing", "wonderful", "great", "poor"}
\* the words written in Latin letters
LatinWords == EnglishVocab \cup LongVocab
\* the words written in Arabic letters; raai and muzij occur only in the
\* Arabic texts of the key word verification
ArabicWords == ArabicVocab \cup {"raai", "muzij"}

\* number of characters of a word
WordLen(w) ==
  CASE w \in {"bad", "but", "not", "sayyi", "ghayr"} -> 3
    [] w \in {"good", "okay", "fine", "food", "aadi", "poor", "raai", "muzij"} -> 4
    [] w \in {"mumtaz", "great"} -> 5
    [] w \in {"delayed", "cramped", "amazing"} -> 7
    [] w \in {"terrible", "mediocre"} -> 8
    [] w \in {"excellent", "fantastic", "wonderful"} -> 9
    [] w = "satisfactory" -> 12

\* the dictionaries of __init__, restricted to Vocab, LongVocab and ArabicWords
negation_words_en == {"not"}
negation_words_ar == {"ghayr"}
positive_words_ar == {"mumtaz", "raai"}
positive_words_en == {"good", "fine", "excellent", "fantastic", "amazing", "wonderful",
                      "great"}
negative_words_ar == {"sayyi", "muzij"}
negative_words_en == {"bad", "terrible", "delayed", "cramped", "mediocre", "poor"}
neutral_words_en == {"okay", "fine", "satisfactory"}
neutral_words_ar == {"aadi"}

\* ------------------------------------------------------------------ inputs
Words(n) == UNION {[1..k -> Vocab] : k \in 0..n}
TextInput(ws) == [kind |-> "text", words |-> ws]
\* a string of white space only
BlankInput == [kind |-> "blank", words |-> <<>>]
\* a value that is not a string (None)
NoneInput == [kind |-> "none", words |-> <<>>]
Inputs(n) == {TextInput(ws) : ws \in Words(n)} \cup {BlankInput, NoneInput}

\* ---------------------------------------------------------- text geometry
RECURSIVE StartOf(_, _)
\* offset of the first character of word i in the text
StartOf(ws, i) == IF i = 1 THEN 0 ELSE StartOf(ws, i - 1) + WordLen(ws[i - 1]) + 1
\* offset just after the last character of word i
EndOf(ws, i) == StartOf(ws, i) + WordLen(ws[i])
Has(ws, S) == \E i \in 1..Len(ws) : ws[i] \in S
\* index of the first occurrence of word w (w occurs in ws)
FirstIndex(ws, w) == CHOOSE i \in 1..Len(ws) : ws[i] = w /\ \A j \in 1..(i - 1) : ws[j] # w
WordSet(ws) == {ws[i] : i \in 1..Len(ws)}

\* -------------------------------------------------------- detect_language
RECURSIVE CountChars(_, _)
CountChars(ws, S) ==
  IF ws = <<>> THEN 0
  ELSE (IF Head(ws) \in S THEN WordLen(Head(ws)) ELSE 0) + CountChars(Tail(ws), S)

\* the Arabic threshold of line 317 taken inclusive
detect_language_AtLeast(ws) ==
  LET arabic_count == CountChars(ws, ArabicWords)
      english_count == CountChars(ws, LatinWords)
      total == arabic_count + english_count
  IN IF total = 0 THEN "EN"
     ELSE IF 10 * arabic_count >= 7 * total THEN "AR"
     ELSE IF 10 * arabic_count < 3 * total THEN "EN"
     ELSE "Mixed"

\* lines 303-322
detect_language(ws) ==
  LET arabic_count == CountChars(ws, ArabicWords)
      english_count == CountChars(ws, LatinWords)
      total == arabic_count + english_count
  IN IF total = 0 THEN "EN"
     ELSE IF 10 * arabic_count > 7 * total THEN "AR"
     ELSE IF 10 * arabic_count < 3 * total THEN "EN"
     ELSE "Mixed"

\* -------------------------------------------------------- detect_negation
NegationWordsFor(language) ==
  IF language = "Mixed" THEN negation_words_en \cup negation_words_ar
  ELSE IF language = "EN" THEN negation_words_en
  ELSE negation_words_ar

\* has_negation: a negation word occurs as a word of the text.  The regular
\* expressions of lines 393-397 need "not" followed by a word, which the
\* word loop has then already seen.
has_negation(ws, language) == Has(ws, NegationWordsFor(language))

\* negated_words, as a set: the next one to three words after a negation
\* word (the regular expressions add the word after "not", which is one of
\* them)
negated_words(ws, language) ==
  {ws[k] : k \in {k \in 1..Len(ws) :
       \E i \in 1..Len(ws) : ws[i] \in NegationWordsFor(language) /\ k - i \in 1..3}}

\* ------------------------------------------- _is_word_negated(_ar)
NegationWindowEn == 40
NegationWindowAr == 20

\* a word of negs lies wholly inside the window characters before the first
\* occurrence of w
NegationBefore(ws, w, negs, window) ==
  /\ w \in WordSet(ws)
  /\ LET i == FirstIndex(ws, w)
     IN \E j \in 1..(i - 1) :
          ws[j] \in negs /\ StartOf(ws, j) >= StartOf(ws, i) - window

is_word_negated(ws, w) == NegationBefore(ws, w, negation_words_en, NegationWindowEn)
is_word_negated_ar(ws, w) == NegationBefore(ws, w, negation_words_ar, NegationWindowAr)

\* ----------------------------------------------------- analyze_rule_based
Connectives == {"but"}
\* strong_negatives of line 429
strong_negatives == {"terrible", "delayed", "bad", "poor"}

\* a strong negative word after the first connective
ButStrongNegative(ws) ==
  \E i \in 1..Len(ws) :
     /\ ws[i] \in Connectives
     /\ \A j \in 1..(i - 1) : ws[j] \notin Connectives
     /\ \E k \in (i + 1)..Len(ws) : ws[k] \in strong_negatives

Result(s, c) == [sentiment |-> s, confidence |-> c]
Min(a, b) == IF a < b THEN a ELSE b
Max(a, b) == IF a > b THEN a ELSE b
Abs(a) == IF a < 0 THEN -a ELSE a

\* lines 447-488: the three scores, in half points
Scores(ws, language) ==
  LET hn == has_negation(ws, language)
      nw == negated_words(ws, language)
      ar == language \in {"AR", "Mixed"}
      en == language \in {"EN", "Mixed"}
      present_ar(S) == IF ar THEN S \cap WordSet(ws) ELSE {}
      present_en(S) == IF en THEN S \cap WordSet(ws) ELSE {}
      neg_ar(S) == {w \in present_ar(S) : is_word_negated_ar(ws, w)}
      neg_en(S) == {w \in present_en(S) : w \in nw \/ (hn /\ is_word_negated(ws, w))}
      pa == present_ar(positive_words_ar)
      na == present_ar(negative_words_ar)
      pe == present_en(positive_words_en)
      ne == present_en(negative_words_en)
      npa == neg_ar(positive_words_ar)
      nna == neg_ar(negative_words_ar)
      npe == neg_en(positive_words_en)
      nne == neg_en(negative_words_en)
  IN [positive |-> 2 * Cardinality(pa \ npa) + Cardinality(nna)
                   + 2 * Cardinality(pe \ npe) + Cardinality(nne),
      negative |-> 3 * Cardinality(npa) + 2 * Cardinality(na \ nna)
                   + 3 * Cardinality(npe) + 2 * Cardinality(ne \ nne),
      neutral |-> Cardinality(present_ar(neutral_words_ar))
                  + Cardinality(present_en(neutral_words_en))]

\* Decide with the first comparison weakened to >=: a positive / negative tie
\* is declared positive
Decide_TieLeansPositive(positive_score, negative_score, neutral_score) ==
  IF positive_score + negative_score + neutral_score = 0 THEN Result("neutral", 500)
  ELSE IF positive_score >= negative_score /\ positive_score >= neutral_score
    THEN Result("positive",
                Min(950, 600 + 50 * (positive_score - Max(negative_score, neutral_score))))
  ELSE IF negative_score > positive_score /\ negative_score >= neutral_score
    THEN Result("negative",
                Min(950, 600 + 50 * (negative_score - Max(positive_score, neutral_score))))
  ELSE IF neutral_score > 0 /\ Abs(positive_score - negative_score) < 1
    THEN Result("neutral", 650)
  ELSE IF Abs(positive_score - negative_score) < 1 THEN Result("neutral", 550)
  ELSE IF positive_score > negative_score THEN Result("positive", 580)
  ELSE Result("negative", 580)

\* Decide with the two labels of the final "slight lean" exchanged
Decide_LeanSwapped(positive_score, negative_score, neutral_score) ==
  IF positive_score + negative_score + neutral_score = 0 THEN Result("neutral", 500)
  ELSE IF positive_score > negative_score /\ positive_score >= neutral_score
    THEN Result("positive",
                Min(950, 600 + 50 * (positive_score - Max(negative_score, neutral_score))))
  ELSE IF negative_score > positive_score /\ negative_score >= neutral_score
    THEN Result("negative",
                Min(950, 600 + 50 * (negative_score - Max(positive_score, neutral_score))))
  ELSE IF neutral_score > 0 /\ Abs(positive_score - negative_score) < 1
    THEN Result("neutral", 650)
  ELSE IF Abs(positive_score - negative_score) < 1 THEN Result("neutral", 550)
  ELSE IF positive_score > negative_score THEN Result("negative", 580)
  ELSE Result("positive", 580)

\* lines 490-514: the decision over the three scores
Decide(positive_score, negative_score, neutral_score) ==
  IF positive_score + negative_score + neutral_score = 0 THEN Result("neutral", 500)
  ELSE IF positive_score > negative_score /\ positive_score >= neutral_score
    THEN Result("positive",
                Min(950, 600 + 50 * (positive_score - Max(negative_score, neutral_score))))
  ELSE IF negative_score > positive_score /\ negative_score >= neutral_score
    THEN Result("negative",
                Min(950, 600 + 50 * (negative_score - Max(positive_score, neutral_score))))
  ELSE IF neutral_score > 0 /\ Abs(positive_score - negative_score) < 1
    THEN Result("neutral", 650)
  ELSE IF Abs(positive_score - negative_score) < 1 THEN Result("neutral", 550)
  ELSE IF positive_score > negative_score THEN Result("positive", 580)
  ELSE Result("negative", 580)

analyze_rule_based(ws, language) ==
  IF language \in {"EN", "Mixed"} /\ ButStrongNegative(ws) THEN Result("negative", 750)
  ELSE IF language \in {"EN", "Mixed"} /\ "mediocre" \in WordSet(ws)
    THEN Result("negative", 750)
  ELSE LET s == Scores(ws, language)
       IN Decide(s.positive, s.negative, s.neutral)

\* ------------------------------------------------ _verify_arabic_sentiment
\* the key word lists of lines 568-596, restricted to ArabicWords
strong_positive_ar == {"mumtaz", "raai"}
strong_negative_ar == {"sayyi", "muzij"}
neutral_ar == {"aadi"}
\* the positive words and particles of the negation check, lines 618-624
negatable_positive_ar == {"mumtaz", "raai"}
direct_negation_ar == {"ghayr"}
ArabicAdjacentWindow == 8

verify_arabic_sentiment(ws, ml_sentiment, ml_confidence) ==
  LET present == WordSet(ws)
      negated == {w \in negatable_positive_ar \cap present :
                    NegationBefore(ws, w, direct_negation_ar, ArabicAdjacentWindow)}
      has_negated_positive == negated # {}
      pos_count == Max(0, Cardinality(strong_positive_ar \cap present) - Cardinality(negated))
      neg_count == Cardinality(strong_negative_ar \cap present) + 2 * Cardinality(negated)
      neutral_count == Cardinality(neutral_ar \cap present)
  IN IF neutral_count >= 2 /\ neg_count = 0 /\ pos_count = 0 THEN Result("neutral", 800)
     ELSE IF neutral_count >= 1 /\ neg_count = 0 /\ pos_count = 0 THEN Result("neutral", 750)
     ELSE IF neg_count >= 2 THEN Result("negative", Min(950, 750 + 50 * neg_count))
     ELSE IF neg_count >= 1 /\ pos_count = 0 THEN Result("negative", 850)
     ELSE IF has_negated_positive THEN Result("negative", 750)
     ELSE IF pos_count >= 2 /\ pos_count > neg_count
       THEN Result("positive", Min(950, 750 + 50 * pos_count))
     ELSE IF pos_count >= 1 /\ neg_count = 0 /\ neutral_count = 0 THEN Result("positive", 800)
     ELSE IF neutral_count >= 1 THEN Result("neutral", 700)
     ELSE IF pos_count = neg_count /\ pos_count > 0 THEN Result("neutral", 650)
     ELSE IF pos_count > neg_count THEN Result("positive", 700)
     ELSE IF neg_count > pos_count THEN Result("negative", 700)
     ELSE Result(ml_sentiment, Min(ml_confidence, 600))

\* --------------------------------------------------------- the ML pipeline
\* what a pipeline call can do: raise, or return a label with a score.
\* POSITIVE / NEGATIVE are DistilBERT's labels, NEUTRAL is one of CAMeL's,
\* "3 STARS" is a label of the star-rating models, which the mapping of
\* lines 704-717 does not know.
MLLabels == {"POSITIVE", "NEGATIVE", "NEUTRAL", "3 STARS"}
MLScores == {300, 500, 990}
MLOutputs == {[raises |-> TRUE, label |-> "POSITIVE", score |-> 990]}
             \cup [raises : {FALSE}, label : MLLabels, score : MLScores]

\* lines 695-717 (label is already upper-cased)
positive_labels == {"POSITIVE", "POS", "LABEL_2", "VERY_POSITIVE"}
negative_labels == {"NEGATIVE", "NEG", "LABEL_0", "VERY_NEGATIVE"}
neutral_labels == {"NEUTRAL", "LABEL_1", "MIXED", "3 STAR"}
\* MapLabel without the final else of line 710: an unknown label is handed on
MapLabel_PassThrough(label, confidence) ==
  IF label \in positive_labels \/ label \in {"5 STARS", "4 STARS"} THEN "positive"
  ELSE IF label \in negative_labels \/ label \in {"1 STAR", "2 STARS"} THEN "negative"
  ELSE IF label \in neutral_labels THEN "neutral"
  ELSE label

MapLabel(label, confidence) ==
  IF label \in positive_labels \/ label \in {"5 STARS", "4 STARS"} THEN "positive"
  ELSE IF label \in negative_labels \/ label \in {"1 STAR", "2 STARS"} THEN "negative"
  ELSE IF label \in neutral_labels THEN "neutral"
  ELSE IF confidence > 750 THEN "positive"
  ELSE IF confidence < 350 THEN "negative"
  ELSE "neutral"

\* ------------------------------------------------------- analyze_ml_based
\* characters between the end of word i and the start of the later word j
Gap(ws, i, j) == StartOf(ws, j) - EndOf(ws, i)

\* strong_negative_words of line 726
strong_negative_words == {"mediocre", "terrible"}
\* weak_negative_indicators of line 757, as the words that contain one
weak_negative_indicators == {"bad", "delayed", "cramped", "poor"}

\* lines 764-798; the rating patterns need digits or "stars"
is_explicit_neutral(ws) ==
  /\ ~Has(ws, weak_negative_indicators)
  /\ "satisfactory" \in WordSet(ws)

\* a b c in this order, with at most w1 / w2 characters between them
Triple(ws, A, B, C, w1, w2) ==
  \E i, j, k \in 1..Len(ws) :
     /\ i < j /\ j < k
     /\ ws[i] \in A /\ ws[j] \in B /\ ws[k] \in C
     /\ Gap(ws, i, j) <= w1 /\ Gap(ws, j, k) <= w2

\* mixed_sentiment_patterns of line 937; the other patterns need "was",
\* "wasn't" or "improvement"
is_mixed_sentiment(ws) ==
  \/ Triple(ws, {"good"}, Connectives, {"bad", "terrible", "delayed"}, 40, 40)
  \/ Triple(ws, {"bad", "terrible", "delayed"}, Connectives, {"good"}, 40, 40)
  \/ Triple(ws, {"good"}, Connectives, {"not", "bad"}, 30, 30)
  \/ Triple(ws, {"not", "bad"}, Connectives, {"good"}, 30, 30)

\* no connective begins within w characters after word i
NoConnectiveWithin(ws, i, w) ==
  ~\E j \in (i + 1)..Len(ws) : ws[j] \in Connectives /\ Gap(ws, i, j) <= w

\* strong_negative_patterns of line 968
is_strong_negative(ws) ==
  \/ \E i \in 1..Len(ws) : ws[i] = "terrible" /\ NoConnectiveWithin(ws, i, 30)
  \/ "mediocre" \in WordSet(ws)

\* "not" directly followed by a word of S, with no connective within w
NotThen(ws, S, w) ==
  \E i \in 1..(Len(ws) - 1) :
     ws[i] = "not" /\ ws[i + 1] \in S /\ NoConnectiveWithin(ws, i + 1, w)

\* neutral_patterns_en, neutral_patterns_ar and extended_neutral_patterns
has_neutral_pattern(ws) ==
  \/ NotThen(ws, {"bad", "terrible"}, 20)
  \/ NotThen(ws, {"bad", "terrible"}, 15)
  \/ Has(ws, {"okay", "fine"})
  \/ "aadi" \in WordSet(ws)

has_neutral_words(ws, language) ==
  \/ WordSet(ws) \cap neutral_words_en # {}
  \/ language = "AR" /\ WordSet(ws) \cap neutral_words_ar # {}

\* lines 1073-1109: a positive prediction whose positive word is negated
NegationOverride(ws, language, r) ==
  IF has_negation(ws, language) /\ negated_words(ws, language) # {}
     /\ r.sentiment = "positive"
  THEN LET pos_words == IF language \in {"EN", "Mixed"} THEN positive_words_en
                        ELSE positive_words_ar
       IN IF negated_words(ws, language) \cap pos_words # {}
            THEN Result("negative", Max(700, Min(850, (r.confidence * 9) \div 10)))
          ELSE IF \E i \in 1..(Len(ws) - 1) : ws[i] = "not" /\ ws[i + 1] \in {"good", "fine"}
            THEN Result("negative", Max(750, (r.confidence * 9) \div 10))
          ELSE r
  ELSE r

\* lines 809-929: the weighted decision for long texts, scores in half points
LongTextThreshold == 50
strong_positive == {"excellent", "fantastic", "amazing", "wonderful"}
medium_positive == {"great"}
weak_positive == {"good", "fine"}
strong_negative == {"terrible"}
medium_negative == {"bad", "delayed", "poor"}
weak_negative == {"cramped"}
neutral_phrases == {"satisfactory"}

LongDecision(pos_score, neg_score, has_neutral_phrase, r) ==
  LET score_diff == pos_score - neg_score
      total_score == Max(pos_score + neg_score, 2)
      is_balanced == /\ Max(pos_score, neg_score) > 0
                     /\ 2 * Min(pos_score, neg_score) >= Max(pos_score, neg_score)
                     /\ Abs(score_diff) <= 12
  IN IF has_neutral_phrase THEN Result("neutral", 750)
     ELSE IF is_balanced THEN Result("neutral", 700)
     ELSE IF score_diff >= 14
       THEN Result("positive", Min(950, 700 + (250 * score_diff) \div total_score))
     ELSE IF score_diff <= -8
       THEN Result("negative", Min(950, 700 + (250 * Abs(score_diff)) \div total_score))
     ELSE Result(r.sentiment, Min(r.confidence, 650))

\* score_text, lines 850-866: weight for every word of the list the text holds
score_text(word_list, ws, weight) == weight * Cardinality(word_list \cap WordSet(ws))

\* lines 869-878, in half points
pos_score(ws) ==
  score_text(strong_positive, ws, 6) + score_text(medium_positive, ws, 4)
    + score_text(weak_positive, ws, 1)
neg_score(ws) ==
  score_text(strong_negative, ws, 8) + score_text(medium_negative, ws, 4)
    + score_text(weak_negative, ws, 1)
\* line 888
has_neutral_phrase(ws) == Has(ws, neutral_phrases)

LongText(ws, r) == LongDecision(pos_score(ws), neg_score(ws), has_neutral_phrase(ws), r)

\* lines 935-1071: the pattern matching for short texts
ShortText(ws, language, r) ==
  IF is_mixed_sentiment(ws) THEN Result("neutral", 750)
  ELSE IF is_strong_negative(ws) THEN Result("negative", Max(r.confidence, 850))
  ELSE IF has_neutral_pattern(ws) THEN Result("neutral", 700)
  ELSE IF has_neutral_words(ws, language) /\ (language = "AR" \/ r.confidence < 600)
    THEN Result("neutral", IF language = "AR" THEN 700 ELSE 600)
  ELSE r

\* the pipeline line 681-689 selects: 0 when none is loaded
PipelineToUse(language, arabic, english, main) ==
  IF language = "AR" /\ arabic # 0 THEN arabic
  ELSE IF english # 0 THEN english
  ELSE main

NoModelLoaded == [sentiment |-> "ValueError", confidence |-> 0]

analyze_ml_based(ws, language, pipe, out) ==
  IF pipe = 0 THEN NoModelLoaded
  ELSE IF out.raises THEN analyze_rule_based(ws, language)
  ELSE LET r == Result(MapLabel(out.label, out.score), out.score)
       IN IF Has(ws, strong_negative_words) THEN Result("negative", 850)
          ELSE IF is_explicit_neutral(ws) THEN Result("neutral", 750)
          ELSE IF language = "AR" THEN verify_arabic_sentiment(ws, r.sentiment, r.confidence)
          ELSE IF Len(ws) >= LongTextThreshold THEN LongText(ws, r)
          ELSE NegationOverride(ws, language, ShortText(ws, language, r))

\* ----------------------------------------------------------------- state
VARIABLES
  ML_AVAILABLE,        \* the transformers import succeeded (module level)
  started,             \* the module has been imported (lines 1187-1196 ran)
  arabic_pipeline,     \* 0 is None, 1 a loaded pipeline
  english_pipeline,
  sentiment_pipeline,
  model_version,
  today,               \* the date datetime.now() returns, in days
  model_loaded,        \* a load_model call has completed
  pc,                  \* position of the caller: idle, returned, batch
  outcome,             \* what the last analyze call did
  batch_texts,         \* the argument of the running analyze_batch call
  batch_use_ml,
  results,             \* the list analyze_batch builds and returns
  loader,              \* position of a load_model call running in another thread
  calls,               \* the analyze calls running in the request threads
  feedbacks,           \* the Feedback table, a bag of records
  settings,            \* the AnalyticsSettings of the report service
  response,            \* what the last analytics request returned
  feedback_files,      \* the FeedbackFile table; file_id is the index
  uploads,             \* the process_upload requests
  dashboards,          \* the Dashboard table; dashboard_id is the index
  users                \* the User table, by id

vars == <<ML_AVAILABLE, started, arabic_pipeline, english_pipeline, sentiment_pipeline,
          model_version, today, model_loaded, pc, outcome, batch_texts, batch_use_ml,
          results, loader, calls, feedbacks, settings, response, feedback_files,
          uploads, dashboards, users>>
analyzer_vars == <<arabic_pipeline, english_pipeline, sentiment_pipeline, model_version>>
batch_vars == <<batch_texts, batch_use_ml, results>>
thread_vars == <<loader, calls>>
analytics_vars == <<feedbacks, settings, response>>
db_vars == <<feedback_files, uploads, dashboards, users>>

RuleBasedV2 == [kind |-> "rule-based-v2", day |-> 0]
RuleBasedV2Enhanced == [kind |-> "rule-based-v2-enhanced", day |-> 0]
HybridSentiment(day) == [kind |-> "hybrid-sentiment", day |-> day]
NoOutcome == [status |-> "idle"]

\* ------------------------------------------------------------------ analyze
\* lines 1139-1143
ml_available == english_pipeline # 0 \/ arabic_pipeline # 0 \/ sentiment_pipeline # 0

\* lines 1118-1162.  scorer records which function computed the sentiment
\* ("ml" for analyze_ml_based past the pipeline call, "rule" for
\* analyze_rule_based); it is not a field of the returned dict.
analyze(input, use_ml, out) ==
  IF input.kind = "none" THEN [status |-> "raised", text |-> input]
  ELSE
    LET ws == input.words
        language == detect_language(ws)
    IN IF use_ml /\ ml_available
       THEN LET pipe == PipelineToUse(language, arabic_pipeline, english_pipeline,
                                      sentiment_pipeline)
                r == analyze_ml_based(ws, language, pipe, out)
            IN IF r = NoModelLoaded THEN [status |-> "raised", text |-> input]
               ELSE [status |-> "returned", text |-> input,
                     sentiment |-> r.sentiment, confidence |-> r.confidence,
                     language |-> language, model_version |-> model_version,
                     scorer |-> IF out.raises THEN "rule" ELSE "ml", error |-> FALSE]
       ELSE LET r == analyze_rule_based(ws, language)
            IN [status |-> "returned", text |-> input,
                sentiment |-> r.sentiment, confidence |-> r.confidence,
                language |-> language, model_version |-> RuleBasedV2Enhanced,
                scorer |-> "rule", error |-> FALSE]

\* the ML outputs a call can meet: the pipeline is only called on the ML path
OutputsFor(input, use_ml) ==
  IF input.kind # "none" /\ use_ml /\ ml_available THEN MLOutputs
  ELSE {CHOOSE o \in MLOutputs : o.raises}

\* lines 1175-1183
Placeholder(input) ==
  [status |-> "returned", text |-> input, sentiment |-> "neutral", confidence |-> 0,
   language |-> "EN", model_version |-> model_version, scorer |-> "none",
   error |-> TRUE]

\* ------------------------------------------------------------------ actions
\* lines 250-301, after the ML_AVAILABLE test: each of the two pipelines
\* loads or fails
LoadPipelines ==
  \E arabic_ok, english_ok \in BOOLEAN :
     /\ arabic_pipeline' = IF arabic_ok THEN 1 ELSE 0
     /\ english_pipeline' = IF english_ok THEN 1 ELSE 0
     /\ sentiment_pipeline' = IF english_ok \/ arabic_ok THEN 1 ELSE 0
     /\ model_version' = HybridSentiment(today)

\* lines 1187-1196: import of the module
Startup ==
  /\ ~started
  /\ started' = TRUE
  /\ IF ML_AVAILABLE THEN LoadPipelines ELSE UNCHANGED analyzer_vars
  /\ model_loaded' = ML_AVAILABLE
  /\ UNCHANGED <<ML_AVAILABLE, today, pc, outcome, batch_vars>>
  /\ UNCHANGED <<thread_vars, analytics_vars>>
  /\ UNCHANGED db_vars

\* load_model, called again by a script (test_sentiment.py:101,
\* reanalyze_feedback.py:33)
LoadModel ==
  /\ started /\ pc = "idle"
  /\ IF ML_AVAILABLE THEN LoadPipelines ELSE UNCHANGED analyzer_vars
  /\ model_loaded' = TRUE
  /\ UNCHANGED <<ML_AVAILABLE, started, today, pc, outcome, batch_vars>>
  /\ UNCHANGED <<thread_vars, analytics_vars>>
  /\ UNCHANGED db_vars

\* midnight passes
NextDay ==
  /\ today < MaxDay
  /\ today' = today + 1
  /\ UNCHANGED <<ML_AVAILABLE, started, analyzer_vars, model_loaded, pc, outcome,
                 batch_vars>>
  /\ UNCHANGED <<thread_vars, analytics_vars>>
  /\ UNCHANGED db_vars

AnalyzeOn(inputs) ==
  /\ started /\ pc = "idle"
  /\ \E input \in inputs, use_ml \in BOOLEAN :
       \E out \in OutputsFor(input, use_ml) :
          outcome' = analyze(input, use_ml, out)
  /\ pc' = "returned"
  /\ UNCHANGED <<ML_AVAILABLE, started, analyzer_vars, today, model_loaded, batch_vars>>
  /\ UNCHANGED <<thread_vars, analytics_vars>>
  /\ UNCHANGED db_vars

\* the caller takes the result (or the exception)
Return ==
  /\ pc = "returned"
  /\ pc' = "idle"
  /\ outcome' = NoOutcome
  /\ batch_texts' = <<>> /\ batch_use_ml' = FALSE /\ results' = <<>>
  /\ UNCHANGED <<ML_AVAILABLE, started, analyzer_vars, today, model_loaded>>
  /\ UNCHANGED <<thread_vars, analytics_vars>>
  /\ UNCHANGED db_vars

\* the texts the lifecycle and batch specification analyses
SampleInputs == {NoneInput, TextInput(<<>>), TextInput(<<"good">>), TextInput(<<"mumtaz">>)}

\* analyze_batch, line 1169
BatchStart ==
  /\ started /\ pc = "idle"
  /\ \E n \in 0..MaxBatch : batch_texts' \in [1..n -> SampleInputs]
  /\ batch_use_ml' \in BOOLEAN
  /\ results' = <<>>
  /\ pc' = "batch"
  /\ UNCHANGED <<ML_AVAILABLE, started, analyzer_vars, today, model_loaded, outcome>>
  /\ UNCHANGED <<thread_vars, analytics_vars>>
  /\ UNCHANGED db_vars

\* the loop body without its try / except: an item that raises ends the call
BatchItem_AbortOnError ==
  /\ pc = "batch" /\ Len(results) < Len(batch_texts)
  /\ LET input == batch_texts[Len(results) + 1]
     IN \E out \in OutputsFor(input, batch_use_ml) :
          LET r == analyze(input, batch_use_ml, out)
          IN IF r.status = "raised"
             THEN results' = results /\ pc' = "returned"
             ELSE results' = Append(results, r) /\ pc' = pc
  /\ UNCHANGED <<ML_AVAILABLE, started, analyzer_vars, today, model_loaded, outcome,
                 batch_texts, batch_use_ml>>
  /\ UNCHANGED <<thread_vars, analytics_vars>>
  /\ UNCHANGED db_vars

\* one iteration of the loop of lines 1170-1183
BatchItem ==
  /\ pc = "batch" /\ Len(results) < Len(batch_texts)
  /\ LET input == batch_texts[Len(results) + 1]
     IN \E out \in OutputsFor(input, batch_use_ml) :
          LET r == analyze(input, batch_use_ml, out)
          IN results' = Append(results, IF r.status = "raised" THEN Placeholder(input)
                                        ELSE r)
  /\ UNCHANGED <<ML_AVAILABLE, started, analyzer_vars, today, model_loaded, pc, outcome,
                 batch_texts, batch_use_ml>>
  /\ UNCHANGED <<thread_vars, analytics_vars>>
  /\ UNCHANGED db_vars

\* line 1184
BatchReturn ==
  /\ pc = "batch" /\ Len(results) = Len(batch_texts)
  /\ pc' = "returned"
  /\ UNCHANGED <<ML_AVAILABLE, started, analyzer_vars, today, model_loaded, outcome,
                 batch_vars>>
  /\ UNCHANGED <<thread_vars, analytics_vars>>
  /\ UNCHANGED db_vars

\* ----------------------------------------------------------- specifications
\* AnalyticsSettings(), report_service.py lines 48-53
DefaultSettings == [nps_target |-> 50, csat_threshold |-> 80, min_reviews_per_route |-> 10]
NoResponse == [kind |-> "none"]

\* no load_model or analyze call is running in a thread
NoThreads == loader = "idle" /\ calls = <<>>
\* no file, dashboard or user is stored and no upload is running
NoDatabase == feedback_files = <<>> /\ uploads = <<>> /\ dashboards = <<>> /\ users = <<>>
\* an empty Feedback table and no analytics request
NoAnalytics == feedbacks = EmptyBag /\ settings = DefaultSettings /\ response = NoResponse

Init ==
  /\ NoDatabase
  /\ NoThreads /\ NoAnalytics
  /\ ML_AVAILABLE \in BOOLEAN
  /\ started = FALSE
  /\ arabic_pipeline = 0 /\ english_pipeline = 0 /\ sentiment_pipeline = 0
  /\ model_version = RuleBasedV2
  /\ today = 0
  /\ model_loaded = FALSE
  /\ pc = "idle"
  /\ outcome = NoOutcome
  /\ batch_texts = <<>> /\ batch_use_ml = FALSE /\ results = <<>>

Analyze == AnalyzeOn(SampleInputs)

Next ==
  \/ Startup
  \/ LoadModel
  \/ NextDay
  \/ Analyze
  \/ Return
  \/ BatchStart
  \/ BatchItem
  \/ BatchReturn

\* the life of the shared analyzer: import, reloads, analyze and
\* analyze_batch calls on the sample texts
Spec == Init /\ [][Next]_vars

\* analyze on every text of at most MaxLen words, and analyze_batch on the
\* sample texts, by an analyzer in each state the import can leave it in:
\* no ML libraries, or each of the two pipelines loaded or failed
InitAnalyze ==
  /\ NoDatabase
  /\ NoThreads /\ NoAnalytics
  /\ ML_AVAILABLE \in BOOLEAN
  /\ started = TRUE
  /\ arabic_pipeline \in (IF ML_AVAILABLE THEN {0, 1} ELSE {0})
  /\ english_pipeline \in (IF ML_AVAILABLE THEN {0, 1} ELSE {0})
  /\ sentiment_pipeline = Max(arabic_pipeline, english_pipeline)
  /\ model_version = (IF ML_AVAILABLE THEN HybridSentiment(0) ELSE RuleBasedV2)
  /\ today = 0
  /\ model_loaded = ML_AVAILABLE
  /\ pc = "idle"
  /\ outcome = NoOutcome
  /\ batch_texts = <<>> /\ batch_use_ml = FALSE /\ results = <<>>

AnalyzeText == AnalyzeOn(Inputs(MaxLen))

NextAnalyze ==
  \/ AnalyzeText
  \/ Return
  \/ BatchStart
  \/ BatchItem
  \/ BatchReturn

SpecAnalyze == InitAnalyze /\ [][NextAnalyze]_vars

\* ------------------------------------------------------------- long texts
\* number of words of the long texts
LongLen == 50
\* the words of the weight lists a long text is built from, in the order
\* they are written in
LongListed == <<"excellent", "fantastic", "amazing", "wonderful", "great", "good", "fine",
                "bad", "delayed", "poor", "cramped", "satisfactory">>
InSet(S, w) == w \in S
\* the words of S, then "food" up to LongLen words
LongWords(S) ==
  LET listed == SelectSeq(LongListed, LAMBDA w : InSet(S, w))
  IN listed \o [i \in 1..(LongLen - Len(listed)) |-> "food"]
LongInputs == {TextInput(LongWords(S)) : S \in SUBSET {LongListed[i] : i \in DOMAIN LongListed}}

AnalyzeLongText == AnalyzeOn(LongInputs)

NextLong ==
  \/ AnalyzeLongText
  \/ Return

\* analyze on the long texts, by an analyzer in each state the import can
\* leave it in
SpecLong == InitAnalyze /\ [][NextLong]_vars

\* ------------------------------------------------------------ Arabic texts
\* the texts of at most MaxLen Arabic words
ArabicInputs == {TextInput(ws) : ws \in UNION {[1..k -> ArabicWords] : k \in 0..MaxLen}}

AnalyzeArabicText == AnalyzeOn(ArabicInputs)

NextArabic ==
  \/ AnalyzeArabicText
  \/ Return

\* analyze on the Arabic texts, by an analyzer in each state the import can
\* leave it in
SpecArabic == InitAnalyze /\ [][NextArabic]_vars

\* ------------------------------------------------ threads on the analyzer
\* request threads that call analyze on the shared sentiment_analyzer
MaxThreads == 2
Threads == 1..MaxThreads
ThreadTexts == {TextInput(<<"good">>), TextInput(<<"mumtaz">>)}
\* the pipeline outputs the threads meet
ThreadOutputs == {o \in MLOutputs : o.raises \/ (o.score = 990 /\ o.label \in {"POSITIVE", "3 STARS"})}
IdleCall == [pc |-> "idle"]

\* load_model in a thread of its own, one assignment at a time.
\* lines 254-258: past the ML_AVAILABLE test
LoadBegin ==
  /\ loader = "idle" /\ ML_AVAILABLE
  /\ loader' = "arabic"
  /\ UNCHANGED <<ML_AVAILABLE, started, analyzer_vars, today, model_loaded, pc, outcome,
                 batch_vars, calls, analytics_vars>>
  /\ UNCHANGED db_vars

\* lines 262-273: arabic_pipeline is assigned the pipeline, or None
LoadArabic ==
  /\ loader = "arabic"
  /\ \E ok \in BOOLEAN : arabic_pipeline' = IF ok THEN 1 ELSE 0
  /\ loader' = "english"
  /\ UNCHANGED <<ML_AVAILABLE, started, english_pipeline, sentiment_pipeline,
                 model_version, today, model_loaded, pc, outcome, batch_vars, calls,
                 analytics_vars>>
  /\ UNCHANGED db_vars

\* lines 275-286
LoadEnglish ==
  /\ loader = "english"
  /\ \E ok \in BOOLEAN : english_pipeline' = IF ok THEN 1 ELSE 0
  /\ loader' = "main"
  /\ UNCHANGED <<ML_AVAILABLE, started, arabic_pipeline, sentiment_pipeline,
                 model_version, today, model_loaded, pc, outcome, batch_vars, calls,
                 analytics_vars>>
  /\ UNCHANGED db_vars

\* line 289
LoadMain ==
  /\ loader = "main"
  /\ sentiment_pipeline' = IF english_pipeline # 0 THEN english_pipeline ELSE arabic_pipeline
  /\ loader' = "version"
  /\ UNCHANGED <<ML_AVAILABLE, started, arabic_pipeline, english_pipeline,
                 model_version, today, model_loaded, pc, outcome, batch_vars, calls,
                 analytics_vars>>
  /\ UNCHANGED db_vars

\* lines 290-296
LoadVersion ==
  /\ loader = "version"
  /\ model_version' = HybridSentiment(today)
  /\ model_loaded' = TRUE
  /\ loader' = "idle"
  /\ UNCHANGED <<ML_AVAILABLE, started, arabic_pipeline, english_pipeline,
                 sentiment_pipeline, today, pc, outcome, batch_vars, calls,
                 analytics_vars>>
  /\ UNCHANGED db_vars

\* analyze lines 1129-1146: the language, and the test of the three pipelines
CallBegin(t) ==
  /\ calls[t].pc = "idle"
  /\ \E input \in ThreadTexts, use_ml \in BOOLEAN :
       calls' = [calls EXCEPT ![t] =
                   [pc |-> "checked", text |-> input,
                    language |-> detect_language(input.words),
                    ml_path |-> use_ml /\ ml_available]]
  /\ UNCHANGED <<ML_AVAILABLE, started, analyzer_vars, today, model_loaded, pc, outcome,
                 batch_vars, loader, analytics_vars>>
  /\ UNCHANGED db_vars

\* lines 1146-1151: the scorer runs; analyze_ml_based reads the pipelines
\* again (lines 681-689) and raises when it finds none
CallScore(t) ==
  /\ calls[t].pc = "checked"
  /\ LET c == calls[t]
         ws == c.text.words
     IN IF c.ml_path
        THEN \E out \in ThreadOutputs :
               LET pipe == PipelineToUse(c.language, arabic_pipeline, english_pipeline,
                                         sentiment_pipeline)
                   r == analyze_ml_based(ws, c.language, pipe, out)
               IN calls' = [calls EXCEPT ![t] =
                    IF r = NoModelLoaded THEN [pc |-> "raised", text |-> c.text]
                    ELSE [pc |-> "scored", text |-> c.text, language |-> c.language,
                          sentiment |-> r.sentiment, confidence |-> r.confidence]]
        ELSE LET r == analyze_rule_based(ws, c.language)
             IN calls' = [calls EXCEPT ![t] =
                    [pc |-> "returned", text |-> c.text, language |-> c.language,
                     sentiment |-> r.sentiment, confidence |-> r.confidence,
                     model_version |-> RuleBasedV2Enhanced]]
  /\ UNCHANGED <<ML_AVAILABLE, started, analyzer_vars, today, model_loaded, pc, outcome,
                 batch_vars, loader, analytics_vars>>
  /\ UNCHANGED db_vars

\* line 1148 reads model_version, lines 1153-1162 build the result
CallTag(t) ==
  /\ calls[t].pc = "scored"
  /\ calls' = [calls EXCEPT ![t] =
                 [pc |-> "returned", text |-> calls[t].text,
                  language |-> calls[t].language, sentiment |-> calls[t].sentiment,
                  confidence |-> calls[t].confidence, model_version |-> model_version]]
  /\ UNCHANGED <<ML_AVAILABLE, started, analyzer_vars, today, model_loaded, pc, outcome,
                 batch_vars, loader, analytics_vars>>
  /\ UNCHANGED db_vars

\* the request ends with the result or with the exception
CallEnd(t) ==
  /\ calls[t].pc \in {"returned", "raised"}
  /\ calls' = [calls EXCEPT ![t] = IdleCall]
  /\ UNCHANGED <<ML_AVAILABLE, started, analyzer_vars, today, model_loaded, pc, outcome,
                 batch_vars, loader, analytics_vars>>
  /\ UNCHANGED db_vars

\* the analyzer as the import left it, the threads idle
InitConcurrent ==
  /\ NoDatabase
  /\ ML_AVAILABLE \in BOOLEAN
  /\ started = TRUE
  /\ arabic_pipeline \in (IF ML_AVAILABLE THEN {0, 1} ELSE {0})
  /\ english_pipeline \in (IF ML_AVAILABLE THEN {0, 1} ELSE {0})
  /\ sentiment_pipeline = Max(arabic_pipeline, english_pipeline)
  /\ model_version = (IF ML_AVAILABLE THEN HybridSentiment(0) ELSE RuleBasedV2)
  /\ today = 0
  /\ model_loaded = ML_AVAILABLE
  /\ pc = "idle"
  /\ outcome = NoOutcome
  /\ batch_texts = <<>> /\ batch_use_ml = FALSE /\ results = <<>>
  /\ loader = "idle"
  /\ calls = [t \in Threads |-> IdleCall]
  /\ NoAnalytics

NextConcurrent ==
  \/ LoadBegin
  \/ LoadArabic
  \/ LoadEnglish
  \/ LoadMain
  \/ LoadVersion
  \/ \E t \in Threads : CallBegin(t)
  \/ \E t \in Threads : CallScore(t)
  \/ \E t \in Threads : CallTag(t)
  \/ \E t \in Threads : CallEnd(t)

\* analyze calls in MaxThreads threads while another thread reloads the model
SpecConcurrent == InitConcurrent /\ [][NextConcurrent]_vars

\* ------------------------------------------------------ the Feedback table
\* A Feedback row, by the columns the analytics read.  feedback_date is a
\* month number (the first day of that month), NoDate is NULL; flight_number
\* NoFlight is NULL; sentiment NoSentiment is NULL; text is the set of
\* complaint keywords the text contains.
NoDate == 0
NoFlight == "NULL"
NoSentiment == "NULL"
Sentiments == {"positive", "negative", "neutral"}
Row(sentiment, flight_number, feedback_date, text) ==
  [sentiment |-> sentiment, flight_number |-> flight_number,
   feedback_date |-> feedback_date, text |-> text]

\* number of rows of the table among the rows S
CountRows(table, S) == BagCardinality([r \in (DOMAIN table) \cap S |-> table[r]])

\* a row is inserted (feedback.py create_feedback, upload processing)
AddFeedback(rows, max) ==
  /\ response = NoResponse
  /\ BagCardinality(feedbacks) < max
  /\ \E r \in rows : feedbacks' = feedbacks (+) SetToBag({r})
  /\ UNCHANGED <<ML_AVAILABLE, started, analyzer_vars, today, model_loaded, pc, outcome,
                 batch_vars, thread_vars, settings, response>>
  /\ UNCHANGED db_vars

\* the response is sent, the request's ReportService is dropped
Respond ==
  /\ response # NoResponse
  /\ response' = NoResponse
  /\ settings' = DefaultSettings
  /\ UNCHANGED <<ML_AVAILABLE, started, analyzer_vars, today, model_loaded, pc, outcome,
                 batch_vars, thread_vars, feedbacks>>
  /\ UNCHANGED db_vars

\* ------------------------------------------------------------- arithmetic
\* round(a / b) as Python rounds: to the nearest integer, a half to the even
\* one (b > 0)
RoundDiv(a, b) ==
  LET q == a \div b
      r == a % b
  IN IF 2 * r < b THEN q
     ELSE IF 2 * r > b THEN q + 1
     ELSE IF q % 2 = 0 THEN q ELSE q + 1

RECURSIVE IsqrtIn(_, _, _)
\* the largest s in lo..hi with s * s <= v
IsqrtIn(v, lo, hi) ==
  IF lo = hi THEN lo
  ELSE LET mid == (lo + hi + 1) \div 2
       IN IF mid * mid <= v THEN IsqrtIn(v, mid, hi) ELSE IsqrtIn(v, lo, mid - 1)
\* math.sqrt, to the integer below
Isqrt(v) == IsqrtIn(v, 0, 46340)

\* the sequences that list the elements of S once each
Orderings(S) ==
  {f \in [1..Cardinality(S) -> S] : \A i, j \in 1..Cardinality(S) : i # j => f[i] # f[j]}
\* sorted(S, key=lambda x: x[key], reverse=True): descending by the field;
\* elements with equal keys keep the order the query returned them in,
\* which is any order
SortedDesc(S, key) ==
  {f \in Orderings(S) : \A i, j \in 1..Cardinality(S) : i < j => f[i][key] >= f[j][key]}
\* seq[:limit]
Prefix(seq, limit) == SubSeq(seq, 1, IF Len(seq) < limit THEN Len(seq) ELSE limit)

\* ------------------------------------------------------------ top routes
\* most rows the route table holds
MaxRouteRows == 10
RouteNames == {"MS777", "MS985"}
RouteRows == {Row(sn, fl, 1, {}) : sn \in Sentiments, fl \in RouteNames}
\* the min_reviews values requested, and the limits
MinReviewsChoices == {1, 5, 10}
Limits == {1, 10}
SortByChoices == {"volume", "rating", "weighted"}

\* the centre of the Wilson interval over the denominator, the spread of
\* line 1247 left out
wilson_score_NoSpread(positive, n, scale) ==
  RoundDiv(1000 * (1250 * positive + 2401) * (scale \div 1000), 1250 * n + 4802)

\* The Wilson score lower bound of lines 1240-1248 (and report_service.py
\* line 492), in units of 1 / scale (scale a multiple of 1000).  With
\* z = 1.96 = 49/25 and p = positive / n the formula
\*   (p + z^2/(2n) - z * sqrt((p(1-p) + z^2/(4n)) / n)) / (1 + z^2/n)
\* is (1250 * positive + 2401 - 49 * sqrt(m * n) / n) / (1250 * n + 4802)
\* with m = 2500 * positive * (n - positive) + 2401 * n.  The square root
\* is taken of 900 * m * n, to one more step of Newton's iteration, and the
\* numerator kept in thousandths, which leaves an error far below the last
\* digit the source rounds to (1 <= n <= 13).
wilson_score(positive, n, scale) ==
  LET v == 900 * (2500 * positive * (n - positive) + 2401 * n) * n
      s == Isqrt(v)
      spread == (49000 * s + (24500 * (v - s * s)) \div s) \div (30 * n)
      numerator == 1000 * (1250 * positive + 2401) - spread
  IN RoundDiv(numerator * (scale \div 1000), 1250 * n + 4802)

\* the flight numbers the endpoint's query returns (lines 1171-1177)
RoutesOf(table) == {r.flight_number : r \in {x \in DOMAIN table : x.flight_number # NoFlight}}

\* analytics.py lines 1201-1268: the metrics of one route.  avg_rating is in
\* hundredths, wilson_score in units of 1/10000.
RouteStat(table, route, min_reviews) ==
  LET of(sn) == CountRows(table, {r \in DOMAIN table :
                                    r.flight_number = route /\ r.sentiment = sn})
      total == CountRows(table, {r \in DOMAIN table : r.flight_number = route})
      positive == of("positive")
      negative == of("negative")
      neutral == of("neutral")
  IN [route |-> route, total |-> total, positive |-> positive, negative |-> negative,
      neutral |-> neutral,
      avg_rating |-> RoundDiv(100 * (5 * positive + 3 * neutral + negative), total),
      wilson_score |-> wilson_score(positive, total, 10000),
      confidence |-> IF total >= 50 THEN "high"
                     ELSE IF total >= min_reviews THEN "medium" ELSE "low",
      meets_threshold |-> total >= min_reviews]

\* the rating and the weighted ranking taken over all the routes, without
\* the split of lines 1294-1295
get_top_routes_RankAll(table, limit, sort_by, min_reviews) ==
  LET routes == {RouteStat(table, route, min_reviews) : route \in RoutesOf(table)}
  IN IF sort_by = "volume" THEN {Prefix(f, limit) : f \in SortedDesc(routes, "total")}
     ELSE IF sort_by = "rating" THEN {Prefix(f, limit) : f \in SortedDesc(routes, "avg_rating")}
     ELSE {Prefix(f, limit) : f \in SortedDesc(routes, "wilson_score")}

\* analytics.py get_top_routes, lines 1270-1317: the lists the endpoint can
\* return
get_top_routes(table, limit, sort_by, min_reviews) ==
  LET routes == {RouteStat(table, route, min_reviews) : route \in RoutesOf(table)}
      qualified_routes == {e \in routes : e.meets_threshold}
      unqualified_routes == routes \ qualified_routes
  IN IF sort_by = "volume" THEN {Prefix(f, limit) : f \in SortedDesc(routes, "total")}
     ELSE IF sort_by = "rating"
       THEN {Prefix(a \o b, limit) : a \in SortedDesc(qualified_routes, "avg_rating"),
                                     b \in SortedDesc(unqualified_routes, "total")}
     ELSE {Prefix(a \o b, limit) : a \in SortedDesc(qualified_routes, "wilson_score"),
                                   b \in SortedDesc(unqualified_routes, "total")}

\* report_service.py lines 470-516: a row without sentiment counts as
\* neutral; wilson_score is in tenths of a percent; confidence_level is
\* set at lines 497-505
ReportRouteStat(table, route) ==
  LET of(sn) == CountRows(table, {r \in DOMAIN table :
                                    r.flight_number = route /\ r.sentiment = sn})
      total == CountRows(table, {r \in DOMAIN table : r.flight_number = route})
      positive == of("positive")
  IN [route |-> route, total |-> total, positive |-> positive,
      negative |-> of("negative"), neutral |-> of("neutral") + of(NoSentiment),
      wilson_score |-> wilson_score(positive, total, 1000),
      confidence |-> IF total >= 100 THEN "Very High"
                     ELSE IF total >= 50 THEN "High"
                     ELSE IF total >= 20 THEN "Medium"
                     ELSE "Low",
      meets_threshold |-> TRUE]

\* ReportService.get_top_routes, lines 465-516.  The result has no
\* meets_threshold field: the routes below min_reviews are left out (line
\* 486), the field records that here.
report_get_top_routes(table, limit, min_reviews) ==
  LET routes_with_scores ==
        {ReportRouteStat(table, route) : route \in
           {r \in RoutesOf(table) :
              CountRows(table, {x \in DOMAIN table : x.flight_number = r}) >= min_reviews}}
  IN {Prefix(f, limit) : f \in SortedDesc(routes_with_scores, "wilson_score")}

\* GET /top-routes
TopRoutes ==
  /\ response = NoResponse
  /\ \E limit \in Limits, sort_by \in SortByChoices, min_reviews \in MinReviewsChoices :
       \E routes \in get_top_routes(feedbacks, limit, sort_by, min_reviews) :
          response' = [kind |-> "top_routes", source |-> "endpoint", sort_by |-> sort_by,
                       min_reviews |-> min_reviews, limit |-> limit, routes |-> routes]
  /\ UNCHANGED <<ML_AVAILABLE, started, analyzer_vars, today, model_loaded, pc, outcome,
                 batch_vars, thread_vars, feedbacks, settings>>
  /\ UNCHANGED db_vars

\* the route section of a report (lines 952 and 1282), by a ReportService
\* built with the request's settings
ReportTopRoutes ==
  /\ response = NoResponse
  /\ \E min_reviews \in MinReviewsChoices, limit \in {5, 20} :
       /\ settings' = [DefaultSettings EXCEPT !.min_reviews_per_route = min_reviews]
       /\ \E routes \in report_get_top_routes(feedbacks, limit, min_reviews) :
            response' = [kind |-> "top_routes", source |-> "report", sort_by |-> "weighted",
                         min_reviews |-> min_reviews, limit |-> limit, routes |-> routes]
  /\ UNCHANGED <<ML_AVAILABLE, started, analyzer_vars, today, model_loaded, pc, outcome,
                 batch_vars, thread_vars, feedbacks>>
  /\ UNCHANGED db_vars

AddRouteFeedback == AddFeedback(RouteRows, MaxRouteRows)

\* the analyzer is not used by the analytics
InitAnalytics ==
  /\ NoDatabase
  /\ ML_AVAILABLE = FALSE
  /\ started = TRUE
  /\ arabic_pipeline = 0 /\ english_pipeline = 0 /\ sentiment_pipeline = 0
  /\ model_version = RuleBasedV2
  /\ today = 0
  /\ model_loaded = FALSE
  /\ pc = "idle"
  /\ outcome = NoOutcome
  /\ batch_texts = <<>> /\ batch_use_ml = FALSE /\ results = <<>>
  /\ NoThreads /\ NoAnalytics

NextRoutes ==
  \/ AddRouteFeedback
  \/ TopRoutes
  \/ ReportTopRoutes
  \/ Respond

\* route rankings over every table of at most MaxRouteRows rows of two routes
SpecRoutes == InitAnalytics /\ [][NextRoutes]_vars

\* ------------------------------------------------------------------ KPIs
\* most rows the KPI table holds
MaxKpiRows == 5
\* feedback_date values of the rows: months, numbered consecutively
KpiMonths == {7, 9}
KpiRows == {Row(sn, NoFlight, d, {}) : sn \in Sentiments \cup {NoSentiment},
                                       d \in KpiMonths \cup {NoDate}}

\* the rows of the table among the rows S
Select(table, S) == [r \in (DOMAIN table) \cap S |-> table[r]]
WithSentiment(table, sn) == CountRows(table, {r \in DOMAIN table : r.sentiment = sn})

\* round(part / total * 100, 1) in tenths of a percent, total > 0
Pct(part, total) == RoundDiv(1000 * part, total)
\* the two shares taken per thousand instead of per hundred
RoundedDifference_PerMille(a, b, total) == RoundDiv(1000 * (a - b), total)
\* round(a / total * 100 - b / total * 100), total > 0
RoundedDifference(a, b, total) == RoundDiv(100 * (a - b), total)

\* None, and a value that is not None
None == <<>>
Some(v) == <<v>>

\* get_filtered_feedback, lines 177-237, with no sentiment or language
\* filter; a date_from or date_to of NoDate is None.  A comparison with a
\* NULL feedback_date is not true.
get_filtered_feedback(table, date_from, date_to) ==
  LET fb == Select(table, {r \in DOMAIN table :
                /\ date_from # NoDate =>
                     r.feedback_date # NoDate /\ r.feedback_date >= date_from
                /\ date_to # NoDate =>
                     r.feedback_date # NoDate /\ r.feedback_date <= date_to})
      total == BagCardinality(fb)
      positive == WithSentiment(fb, "positive")
      negative == WithSentiment(fb, "negative")
      neutral == WithSentiment(fb, "neutral")
  IN [feedbacks |-> fb,
      stats |-> [total |-> total, positive |-> positive, negative |-> negative,
                 neutral |-> neutral,
                 positive_pct |-> IF total > 0 THEN Pct(positive, total) ELSE 0,
                 negative_pct |-> IF total > 0 THEN Pct(negative, total) ELSE 0,
                 neutral_pct |-> IF total > 0 THEN Pct(neutral, total) ELSE 0]]

\* ReportService.calculate_nps, lines 285-338; percentages in tenths
calculate_nps(stats, s) ==
  LET total == stats.total
  IN IF total = 0
     THEN [nps_score |-> 0, grade |-> "N/A", promoter_pct |-> 0, passive_pct |-> 0,
           detractor_pct |-> 0]
     ELSE LET promoter_pct == Pct(stats.positive, total)
              passive_pct == Pct(stats.neutral, total)
              detractor_pct == Pct(stats.negative, total)
              nps_score == RoundDiv(promoter_pct - detractor_pct, 10)
              grade == IF nps_score >= 70 THEN "Excellent"
                       ELSE IF nps_score >= 50 THEN "Great"
                       ELSE IF nps_score >= 30 THEN "Good"
                       ELSE IF nps_score >= 0 THEN "Needs Improvement"
                       ELSE "Critical"
          IN [nps_score |-> nps_score, grade |-> grade,
              promoter_pct |-> promoter_pct, passive_pct |-> passive_pct,
              detractor_pct |-> detractor_pct, target |-> s.nps_target,
              vs_target |-> nps_score - s.nps_target,
              meets_target |-> nps_score >= s.nps_target]

\* what Python does with a division by zero
ZeroDivisionError == [raised |-> "ZeroDivisionError"]

\* lines 366-376; csat_score in tenths of a percent
csat_status(csat_score) ==
  IF csat_score >= 900 THEN "Excellent"
  ELSE IF csat_score >= 800 THEN "Good"
  ELSE IF csat_score >= 700 THEN "Fair"
  ELSE IF csat_score >= 600 THEN "Needs Improvement"
  ELSE "Critical"

\* calculate_csat without the test of lines 347-356
calculate_csat_Unguarded(stats, s) ==
  IF stats.total = 0 THEN ZeroDivisionError
  ELSE LET csat_score == Pct(stats.positive, stats.total)
       IN [csat_score |-> csat_score, threshold |-> s.csat_threshold,
           meets_threshold |-> csat_score >= 10 * s.csat_threshold,
           satisfied_count |-> stats.positive, unsatisfied_count |-> stats.negative,
           status |-> csat_status(csat_score)]

\* ReportService.calculate_csat, lines 340-385
calculate_csat(stats, s) ==
  LET total == stats.total
  IN IF total = 0
     THEN [csat_score |-> 0, threshold |-> s.csat_threshold, meets_threshold |-> FALSE,
           satisfied_count |-> 0, unsatisfied_count |-> 0, status |-> "N/A"]
     ELSE LET csat_score == Pct(stats.positive, total)
          IN [csat_score |-> csat_score, threshold |-> s.csat_threshold,
              meets_threshold |-> csat_score >= 10 * s.csat_threshold,
              satisfied_count |-> stats.positive, unsatisfied_count |-> stats.negative,
              status |-> csat_status(csat_score)]

\* the elements of a set of numbers, ascending
Ascending(S) == CHOOSE f \in Orderings(S) : \A i, j \in 1..Cardinality(S) : i < j => f[i] < f[j]

\* the months of the dated rows
MonthsOf(table) == {r.feedback_date : r \in {x \in DOMAIN table : x.feedback_date # NoDate}}
InMonth(table, m) == Select(table, {r \in DOMAIN table : r.feedback_date = m})

\* ReportService.get_monthly_nps, lines 387-420: a row without sentiment
\* counts as neutral
get_monthly_nps(table, s) ==
  LET entry(m) ==
        LET data == InMonth(table, m)
            total == BagCardinality(data)
            positive == WithSentiment(data, "positive")
            negative == WithSentiment(data, "negative")
            nps_score == RoundedDifference(positive, negative, total)
        IN [month |-> m, nps_score |-> nps_score, total |-> total,
            positive |-> positive, negative |-> negative,
            neutral |-> WithSentiment(data, "neutral") + WithSentiment(data, NoSentiment),
            meets_target |-> nps_score >= s.nps_target]
      sorted_months == Ascending(MonthsOf(table))
  IN [i \in 1..Len(sorted_months) |-> entry(sorted_months[i])]

\* ReportService.get_trend_data, lines 239-259.  The key of a row without
\* date is 'Unknown', written NoDate here; sorted() puts it after the dates.
get_trend_data(table) ==
  LET dated == Ascending(MonthsOf(table))
      sorted_dates == IF \E r \in DOMAIN table : r.feedback_date = NoDate
                      THEN Append(dated, NoDate) ELSE dated
      of(d, sn) == WithSentiment(InMonth(table, d), sn)
      column(f(_)) == [i \in 1..Len(sorted_dates) |-> f(sorted_dates[i])]
      Positive(d) == of(d, "positive")
      Negative(d) == of(d, "negative")
      Neutral(d) == of(d, "neutral") + of(d, NoSentiment)
      Total(d) == BagCardinality(InMonth(table, d))
  IN [dates |-> sorted_dates, positive |-> column(Positive), negative |-> column(Negative),
      neutral |-> column(Neutral), total |-> column(Total)]

\* the requested history lengths, and the date_from / date_to pairs
\* (<<NoDate, NoDate>>: none given)
MonthsChoices == {1, 3, 6}
DateRanges == {<<NoDate, NoDate>>, <<6, 9>>}
min_responses_threshold == 5

RECURSIVE Sum(_)
Sum(seq) == IF seq = <<>> THEN 0 ELSE Head(seq) + Sum(Tail(seq))
Maximum(S) == CHOOSE x \in S : \A y \in S : y <= x
Minimum(S) == CHOOSE x \in S : \A y \in S : x <= y

\* lines 1063-1115: the entry of one month of the timeline; months_data
\* holds the months with a row that has a date and a sentiment
HistoryEntry(table, m) ==
  LET data == Select(table, {r \in DOMAIN table :
                               r.feedback_date = m /\ r.sentiment # NoSentiment})
      promoters == WithSentiment(data, "positive")
      detractors == WithSentiment(data, "negative")
      passives == WithSentiment(data, "neutral")
      total == promoters + detractors + passives
  IN IF data # EmptyBag
     THEN [month |-> m,
           nps |-> IF total > 0 THEN Some(RoundedDifference(promoters, detractors, total))
                   ELSE None,
           total_responses |-> total, promoters |-> promoters, detractors |-> detractors,
           passives |-> passives,
           promoters_pct |-> IF total > 0 THEN Pct(promoters, total) ELSE 0,
           detractors_pct |-> IF total > 0 THEN Pct(detractors, total) ELSE 0,
           has_sufficient_data |-> total >= min_responses_threshold,
           has_data |-> TRUE]
     ELSE [month |-> m, nps |-> None, total_responses |-> 0, promoters |-> 0,
           detractors |-> 0, passives |-> 0, promoters_pct |-> 0, detractors_pct |-> 0,
           has_sufficient_data |-> FALSE, has_data |-> FALSE]

\* lines 1121-1135
HistorySummary(history) ==
  LET valid == SelectSeq(history, LAMBDA h : h.nps # None /\ h.has_sufficient_data)
      valid_nps_values == [i \in 1..Len(valid) |-> valid[i].nps[1]]
      values == {valid_nps_values[i] : i \in 1..Len(valid)}
  IN [avg_nps |-> IF valid_nps_values # <<>>
                  THEN Some(RoundDiv(Sum(valid_nps_values), Len(valid_nps_values)))
                  ELSE None,
      max_nps |-> IF valid_nps_values # <<>> THEN Some(Maximum(values)) ELSE None,
      min_nps |-> IF valid_nps_values # <<>> THEN Some(Minimum(values)) ELSE None,
      months_above_target |-> Len(SelectSeq(valid_nps_values, LAMBDA v : v >= 50)),
      total_months |-> Len(history),
      months_with_data |-> Len(SelectSeq(history, LAMBDA h : h.has_data))]

\* analytics.py get_nps_history, lines 946-1136
get_nps_history(table, months, date_from, date_to) ==
  LET given == date_from # NoDate /\ date_to # NoDate
      dated == MonthsOf(table)
  IN IF ~given /\ dated = {}
     THEN [history |-> <<>>,
           summary |-> [avg_nps |-> None, max_nps |-> None, min_nps |-> None,
                        months_above_target |-> 0, total_months |-> 0,
                        months_with_data |-> 0]]
     ELSE LET end_date == IF given THEN date_to ELSE Maximum(dated)
              start_date == IF given THEN date_from ELSE end_date - (months - 1)
              timeline_months == [i \in 1..(end_date - start_date + 1) |-> start_date + i - 1]
              full == [i \in 1..Len(timeline_months) |->
                         HistoryEntry(table, timeline_months[i])]
              history == IF Len(full) > months
                         THEN SubSeq(full, Len(full) - months + 1, Len(full))
                         ELSE full
          IN [history |-> history, summary |-> HistorySummary(history)]

\* lines 582-625 and 840-882: the sentiment counts of the period.  Without
\* use_date_filter (show_all and no dates given) every row counts, else the
\* rows dated within start_date..end_date; rows without sentiment are
\* dropped from sentiment_dict.
PeriodCounts(table, use_date_filter, start_date, end_date) ==
  LET rows == IF use_date_filter
              THEN Select(table, {r \in DOMAIN table :
                            /\ r.feedback_date # NoDate
                            /\ r.feedback_date >= start_date
                            /\ r.feedback_date <= end_date})
              ELSE table
      of(sn) == WithSentiment(rows, sn)
  IN [positive |-> of("positive"), negative |-> of("negative"), neutral |-> of("neutral"),
      total |-> of("positive") + of("negative") + of("neutral")]

\* lines 629-642 and 893-912: the period of the same length before
\* start_date; without use_date_filter start_date is the earliest date of
\* the table and the length is days, a month here
PreviousCounts(table, use_date_filter, start_date, end_date) ==
  LET start == IF use_date_filter THEN start_date
               ELSE IF MonthsOf(table) # {} THEN Minimum(MonthsOf(table)) ELSE 1
      period_length == IF use_date_filter THEN end_date - start_date + 1 ELSE 1
      prev_start == start - period_length
      rows == Select(table, {r \in DOMAIN table :
                  /\ r.feedback_date # NoDate
                  /\ r.feedback_date >= prev_start
                  /\ r.feedback_date < start})
      of(sn) == WithSentiment(rows, sn)
  IN [positive |-> of("positive"), negative |-> of("negative"), neutral |-> of("neutral"),
      total |-> of("positive") + of("negative") + of("neutral")]

\* analytics.py get_nps_score, lines 820-943
get_nps_score(table, use_date_filter, start_date, end_date) ==
  LET now == PeriodCounts(table, use_date_filter, start_date, end_date)
      prev == PreviousCounts(table, use_date_filter, start_date, end_date)
      promoter_pct == IF now.total > 0 THEN Pct(now.positive, now.total) ELSE 0
      detractor_pct == IF now.total > 0 THEN Pct(now.negative, now.total) ELSE 0
      passive_pct == IF now.total > 0 THEN Pct(now.neutral, now.total) ELSE 0
      nps_score == IF now.total > 0 THEN RoundDiv(promoter_pct - detractor_pct, 10) ELSE 0
      prev_nps == IF prev.total > 0
                  THEN RoundedDifference(prev.positive, prev.negative, prev.total)
                  ELSE 0
  IN [nps_score |-> nps_score, previous_nps |-> prev_nps, change |-> nps_score - prev_nps,
      promoters |-> now.positive, passives |-> now.neutral, detractors |-> now.negative,
      promoter_pct |-> promoter_pct, passive_pct |-> passive_pct,
      detractor_pct |-> detractor_pct, total_responses |-> now.total,
      grade |-> IF nps_score >= 70 THEN "World Class"
                ELSE IF nps_score >= 50 THEN "Excellent"
                ELSE IF nps_score >= 30 THEN "Good"
                ELSE IF nps_score >= 0 THEN "Needs Improvement"
                ELSE "Critical"]

\* analytics.py get_csat_score, lines 568-655; scores in tenths of a percent
get_csat_score(table, use_date_filter, start_date, end_date) ==
  LET now == PeriodCounts(table, use_date_filter, start_date, end_date)
      prev == PreviousCounts(table, use_date_filter, start_date, end_date)
      csat_score == IF now.total > 0 THEN Pct(now.positive, now.total) ELSE 0
      prev_csat == IF prev.total > 0 THEN Pct(prev.positive, prev.total) ELSE 0
  IN [csat_score |-> csat_score, previous_score |-> prev_csat,
      change |-> csat_score - prev_csat, positive_count |-> now.positive,
      total_count |-> now.total,
      grade |-> IF csat_score >= 800 THEN "Excellent"
                ELSE IF csat_score >= 600 THEN "Good"
                ELSE IF csat_score >= 400 THEN "Fair" ELSE "Poor"]

\* --------------------------------------------------------------- complaints
\* most rows the complaint table holds
MaxComplaintRows == 4
\* the keywords the texts are made of; none is part of another keyword
ComplaintWords == {"late", "meal"}
ComplaintRows == {Row(sn, NoFlight, 1, text) : sn \in {"negative", "positive"},
                                              text \in SUBSET ComplaintWords}

\* analytics.py lines 482-493, the English keywords, in the order of the dict
complaint_categories ==
  << [category |-> "Delay/Cancellation",
      keywords |-> {"delay", "delayed", "cancel", "cancelled", "late", "wait", "hours"}],
     [category |-> "Lost Baggage",
      keywords |-> {"luggage", "baggage", "bag", "lost", "missing", "suitcase"}],
     [category |-> "Poor Service",
      keywords |-> {"rude", "unhelpful", "staff", "service", "attitude"}],
     [category |-> "Seat Issues",
      keywords |-> {"seat", "uncomfortable", "space", "legroom", "cramped"}],
     [category |-> "Food Quality", keywords |-> {"food", "meal", "cold", "taste", "quality"}],
     [category |-> "Booking Problems",
      keywords |-> {"booking", "reservation", "website", "app"}],
     [category |-> "Refund Issues", keywords |-> {"refund", "money", "charge", "payment"}],
     [category |-> "Check-in Problems",
      keywords |-> {"check-in", "checkin", "counter", "queue", "line"}],
     [category |-> "Communication",
      keywords |-> {"communication", "inform", "notification", "update"}],
     [category |-> "Cleanliness", keywords |-> {"dirty", "clean", "hygiene", "toilet"}] >>

\* report_service.py lines 430-441, the English keywords; the category is
\* reported with category.title()
complaint_keywords ==
  << [category |-> "Delay", keywords |-> {"delay", "late", "wait", "waiting", "delayed"}],
     [category |-> "Baggage", keywords |-> {"baggage", "luggage", "bag", "bags", "lost"}],
     [category |-> "Service",
      keywords |-> {"service", "staff", "crew", "rude", "unfriendly"}],
     [category |-> "Food", keywords |-> {"food", "meal", "catering", "hungry"}],
     [category |-> "Seating", keywords |-> {"seat", "seating", "cramped", "uncomfortable"}],
     [category |-> "Booking", keywords |-> {"booking", "reservation", "ticket", "cancel"}],
     [category |-> "Refund", keywords |-> {"refund", "money", "compensation", "payment"}],
     [category |-> "Cleanliness", keywords |-> {"clean", "dirty", "hygiene", "sanitary"}],
     [category |-> "Entertainment",
      keywords |-> {"entertainment", "screen", "wifi", "internet"}],
     [category |-> "Check-In", keywords |-> {"check-in", "checkin", "counter", "airport"}] >>

\* the negative rows whose text holds a keyword of the category
Matches(negative_feedback, keywords) ==
  CountRows(negative_feedback, {r \in DOMAIN negative_feedback : r.text \cap keywords # {}})

NegativeRows(table) == Select(table, {r \in DOMAIN table : r.sentiment = "negative"})

\* analytics.py get_top_complaints, lines 446-517, without date filter.
\* sorted() is stable: categories with equal counts stay in the order of
\* the dict.  Percentages in tenths.
get_top_complaints(table, limit) ==
  LET negative_feedback == NegativeRows(table)
      category_counts == [i \in DOMAIN complaint_categories |->
                            Matches(negative_feedback, complaint_categories[i].keywords)]
      counted == {i \in DOMAIN complaint_categories : category_counts[i] > 0}
      order == CHOOSE f \in Orderings(counted) :
                 \A i, j \in 1..Cardinality(counted) :
                    i < j => \/ category_counts[f[i]] > category_counts[f[j]]
                             \/ category_counts[f[i]] = category_counts[f[j]] /\ f[i] < f[j]
      top == Prefix(order, limit)
      total == Sum([i \in 1..Len(top) |-> category_counts[top[i]]])
  IN [i \in 1..Len(top) |->
        [category |-> complaint_categories[top[i]].category,
         count |-> category_counts[top[i]],
         percentage |-> IF total > 0 THEN Pct(category_counts[top[i]], total) ELSE 0]]

\* ReportService.get_complaint_categories, lines 422-463: the lists it can
\* return.  most_common() keeps categories with equal counts in the order
\* they were first counted, which follows the order of the rows.
get_complaint_categories(table, limit) ==
  LET negative_feedbacks == NegativeRows(table)
      keyword_counts == {[category |-> complaint_keywords[i].category,
                          count |-> Matches(negative_feedbacks, complaint_keywords[i].keywords)] :
                           i \in DOMAIN complaint_keywords}
      total_negative == IF BagCardinality(negative_feedbacks) = 0 THEN 1
                        ELSE BagCardinality(negative_feedbacks)
      listed == {Prefix(f, limit) :
                   f \in SortedDesc({e \in keyword_counts : e.count > 0}, "count")}
  IN {[i \in 1..Len(top) |->
         [category |-> top[i].category, count |-> top[i].count,
          percentage |-> Pct(top[i].count, total_negative)]] : top \in listed}

\* ----------------------------------------------------- analytics requests
\* the csat_threshold settings requested, and the periods of the KPI endpoints
CsatThresholds == {70, 80, 90}
Periods == {<<7, 7>>, <<9, 9>>, <<8, 9>>}
ComplaintLimits == {1, 5}

\* the KPI sections of a report (reports.py lines 171-195 and 225-232,
\* report_service.py lines 785, 838, 877, 999), by a ReportService built
\* with the request's settings
ReportKpis ==
  /\ response = NoResponse
  /\ \E csat_threshold \in CsatThresholds, range \in DateRanges :
       LET s == [DefaultSettings EXCEPT !.csat_threshold = csat_threshold]
           filtered == get_filtered_feedback(feedbacks, range[1], range[2])
       IN /\ settings' = s
          /\ response' = [kind |-> "report", date_from |-> range[1], date_to |-> range[2],
                          stats |-> filtered.stats,
                          nps |-> calculate_nps(filtered.stats, s),
                          csat |-> calculate_csat(filtered.stats, s),
                          monthly_nps |-> get_monthly_nps(filtered.feedbacks, s),
                          trend_data |-> get_trend_data(filtered.feedbacks)]
  /\ UNCHANGED <<ML_AVAILABLE, started, analyzer_vars, today, model_loaded, pc, outcome,
                 batch_vars, thread_vars, feedbacks>>
  /\ UNCHANGED db_vars

\* the complaint section of a report (report_service.py lines 917 and 1302)
ReportComplaints ==
  /\ response = NoResponse
  /\ \E limit \in {8, 15} :
       \E categories \in get_complaint_categories(feedbacks, limit) :
          response' = [kind |-> "complaints", source |-> "report", limit |-> limit,
                       negative |-> BagCardinality(NegativeRows(feedbacks)),
                       categories |-> categories]
  /\ UNCHANGED <<ML_AVAILABLE, started, analyzer_vars, today, model_loaded, pc, outcome,
                 batch_vars, thread_vars, feedbacks, settings>>
  /\ UNCHANGED db_vars

\* GET /top-complaints
TopComplaints ==
  /\ response = NoResponse
  /\ \E limit \in ComplaintLimits :
       response' = [kind |-> "complaints", source |-> "endpoint", limit |-> limit,
                    negative |-> BagCardinality(NegativeRows(feedbacks)),
                    categories |-> get_top_complaints(feedbacks, limit)]
  /\ UNCHANGED <<ML_AVAILABLE, started, analyzer_vars, today, model_loaded, pc, outcome,
                 batch_vars, thread_vars, feedbacks, settings>>
  /\ UNCHANGED db_vars

\* GET /nps-score: show_all without dates, or a period
NpsScore ==
  /\ response = NoResponse
  /\ \E use_date_filter \in BOOLEAN, period \in Periods :
       response' = [kind |-> "nps_score", use_date_filter |-> use_date_filter,
                    start_date |-> period[1], end_date |-> period[2],
                    body |-> get_nps_score(feedbacks, use_date_filter, period[1], period[2])]
  /\ UNCHANGED <<ML_AVAILABLE, started, analyzer_vars, today, model_loaded, pc, outcome,
                 batch_vars, thread_vars, feedbacks, settings>>
  /\ UNCHANGED db_vars

\* GET /csat-score
CsatScore ==
  /\ response = NoResponse
  /\ \E use_date_filter \in BOOLEAN, period \in Periods :
       response' = [kind |-> "csat_score", use_date_filter |-> use_date_filter,
                    start_date |-> period[1], end_date |-> period[2],
                    body |-> get_csat_score(feedbacks, use_date_filter, period[1], period[2])]
  /\ UNCHANGED <<ML_AVAILABLE, started, analyzer_vars, today, model_loaded, pc, outcome,
                 batch_vars, thread_vars, feedbacks, settings>>
  /\ UNCHANGED db_vars

\* GET /nps-history
NpsHistory ==
  /\ response = NoResponse
  /\ \E months \in MonthsChoices, range \in DateRanges :
       response' = [kind |-> "nps_history", months |-> months,
                    date_from |-> range[1], date_to |-> range[2],
                    body |-> get_nps_history(feedbacks, months, range[1], range[2])]
  /\ UNCHANGED <<ML_AVAILABLE, started, analyzer_vars, today, model_loaded, pc, outcome,
                 batch_vars, thread_vars, feedbacks, settings>>
  /\ UNCHANGED db_vars

AddKpiFeedback == AddFeedback(KpiRows, MaxKpiRows)

NextKpi ==
  \/ AddKpiFeedback
  \/ ReportKpis
  \/ ReportComplaints
  \/ TopComplaints
  \/ NpsScore
  \/ CsatScore
  \/ NpsHistory
  \/ Respond

\* the KPI requests over every table of at most MaxKpiRows rows, with and
\* without sentiment and date
SpecKpi == InitAnalytics /\ [][NextKpi]_vars

AddComplaintFeedback == AddFeedback(ComplaintRows, MaxComplaintRows)

NextComplaints ==
  \/ AddComplaintFeedback
  \/ TopComplaints
  \/ ReportComplaints
  \/ Respond

\* the complaint rankings over every table of at most MaxComplaintRows
\* positive and negative rows whose texts hold the keywords of ComplaintWords
SpecComplaints == InitAnalytics /\ [][NextComplaints]_vars

\* ------------------------------------------------------------ the database
\* the user seed_database.py creates, lines 36-45: one admin
SeedUsers == << [role |-> "admin", status |-> "active"] >>

\* the API is up, the seeded admin is stored, every other table is empty
InitDatabase ==
  /\ feedback_files = <<>> /\ uploads = <<>> /\ dashboards = <<>> /\ users = SeedUsers
  /\ ML_AVAILABLE = FALSE
  /\ started = TRUE
  /\ arabic_pipeline = 0 /\ english_pipeline = 0 /\ sentiment_pipeline = 0
  /\ model_version = RuleBasedV2
  /\ today = 0
  /\ model_loaded = FALSE
  /\ pc = "idle"
  /\ outcome = NoOutcome
  /\ batch_texts = <<>> /\ batch_use_ml = FALSE /\ results = <<>>
  /\ NoThreads /\ NoAnalytics

\* security.py get_current_user, lines 97-107: the accounts a token can
\* authenticate, those stored with status active
CurrentUsers == {id \in DOMAIN users : users[id].status = "active"}

\* ----------------------------------------------------------------- uploads
\* most process_upload requests
MaxUploads == 2
\* most Feedback rows created through POST /feedback
MaxStoredRows == 2

\* the uploaded files, as the cells of the text column row by row: an empty
\* file, a file that holds a text twice (in two spellings), a file with a
\* short row, and a file of one row
UploadFiles == {<<>>, <<"Good flight", "good flight">>, <<"Too bad", "Late again">>,
                <<"good flight">>}
\* str.strip().lower(); no cell has outer white space
Normalized(text) ==
  CASE text = "Good flight" -> "good flight"
    [] text = "Late again" -> "late again"
    [] text = "Too bad" -> "too bad"
    [] OTHER -> text
\* len(text)
TextLen(text) ==
  CASE text = "Too bad" -> 7
    [] text = "Late again" -> 10
    [] OTHER -> 11

\* Python values: a list, a tuple, and the dict of one feedback
List(items) == [type |-> "list", items |-> items]
Tuple(items) == [type |-> "tuple", items |-> items]
Dict(text, sentiment) == [type |-> "dict", text |-> text, sentiment |-> sentiment]

\* the results list of process_feedback_data, lines 420-498: the rows whose
\* text has at least ten characters, with the sentiment of the analysis
FeedbackResults(df, analyze_sentiment, sentiments) ==
  LET kept == SelectSeq([i \in 1..Len(df) |-> i], LAMBDA i : TextLen(df[i]) >= 10)
  IN [k \in 1..Len(kept) |->
        Dict(df[kept[k]], IF analyze_sentiment THEN sentiments[kept[k]] ELSE NoSentiment)]

\* process_feedback_data returning the results list alone
process_feedback_data_ResultsOnly(df, analyze_sentiment, sentiments) ==
  List(FeedbackResults(df, analyze_sentiment, sentiments))

\* upload_service.py process_feedback_data, lines 379-500: returns the pair
\* (results, date_warnings); the files have no date column
process_feedback_data(df, analyze_sentiment, sentiments) ==
  Tuple(<<List(FeedbackResults(df, analyze_sentiment, sentiments)), List(<<>>)>>)

\* existing_texts_map of line 110, one for each order the query can return
\* the rows in: every normalised text of the table with one of its rows
ExistingTextsMaps(table) ==
  LET keys == {Normalized(r.text) : r \in DOMAIN table}
  IN {m \in [keys -> DOMAIN table] : \A k \in keys : Normalized(m[k].text) = k}

\* HandleUpload on the first element of the pair, as if line 98 unpacked it
HandleUpload_Unpacked(processed_data, table, existing_texts_map, save_to_db, overwrite_duplicates) ==
  LET data == processed_data.items[1].items
  IN IF \E i \in DOMAIN data : data[i].type # "dict"
     THEN [raised |-> TRUE, feedbacks |-> table]
     ELSE
       LET text_normalized(i) == Normalized(data[i].text)
           \* lines 117-126
           unique_items == {i \in DOMAIN data :
                              \A j \in 1..(i - 1) : text_normalized(j) # text_normalized(i)}
           \* lines 133-148
           known == {i \in unique_items : text_normalized(i) \in DOMAIN existing_texts_map}
           removed == IF overwrite_duplicates
                      THEN {existing_texts_map[text_normalized(i)] : i \in known}
                      ELSE {}
           items_to_insert == IF overwrite_duplicates THEN unique_items
                              ELSE unique_items \ known
           \* lines 151-152 and 203: the deletions are committed
           kept == IF removed # {} THEN table (-) SetToBag(removed) ELSE table
           \* lines 167-191
           inserted == IF save_to_db
                       THEN BagUnion({SetToBag({Row(data[i].sentiment, NoFlight, NoDate,
                                                    data[i].text)}) : i \in items_to_insert})
                       ELSE EmptyBag
       IN [raised |-> FALSE, feedbacks |-> kept (+) inserted]

\* upload.py lines 104-203 past the FeedbackFile insert.  The loop of line
\* 117 takes item["text"] of every element of processed_data, which raises
\* TypeError on an element that is not a dict; nothing is written before.
\* Returns the Feedback table as the request leaves it.
HandleUpload(processed_data, table, existing_texts_map, save_to_db, overwrite_duplicates) ==
  LET data == processed_data.items
  IN IF \E i \in DOMAIN data : data[i].type # "dict"
     THEN [raised |-> TRUE, feedbacks |-> table]
     ELSE
       LET text_normalized(i) == Normalized(data[i].text)
           \* lines 117-126
           unique_items == {i \in DOMAIN data :
                              \A j \in 1..(i - 1) : text_normalized(j) # text_normalized(i)}
           \* lines 133-148
           known == {i \in unique_items : text_normalized(i) \in DOMAIN existing_texts_map}
           removed == IF overwrite_duplicates
                      THEN {existing_texts_map[text_normalized(i)] : i \in known}
                      ELSE {}
           items_to_insert == IF overwrite_duplicates THEN unique_items
                              ELSE unique_items \ known
           \* lines 151-152 and 203: the deletions are committed
           kept == IF removed # {} THEN table (-) SetToBag(removed) ELSE table
           \* lines 167-191
           inserted == IF save_to_db
                       THEN BagUnion({SetToBag({Row(data[i].sentiment, NoFlight, NoDate,
                                                    data[i].text)}) : i \in items_to_insert})
                       ELSE EmptyBag
       IN [raised |-> FALSE, feedbacks |-> kept (+) inserted]

\* POST /upload/process up to the commit of line 91: the file is validated
\* and read, and the FeedbackFile row is stored in status processing
ProcessUploadBegin ==
  /\ Len(uploads) < MaxUploads
  /\ \E current_user \in CurrentUsers, df \in UploadFiles,
        save_to_db, overwrite_duplicates \in BOOLEAN :
       LET request == [df |-> df, save_to_db |-> save_to_db,
                       overwrite_duplicates |-> overwrite_duplicates]
       IN IF df = <<>>
          THEN \* validate_dataframe, line 294: "File is empty"
               /\ uploads' = Append(uploads, request @@ [pc |-> "raised", file_id |-> 0])
               /\ UNCHANGED feedback_files
          ELSE IF save_to_db
          THEN /\ feedback_files' = Append(feedback_files,
                                           [status |-> "processing", total_rows |-> Len(df),
                                            processed_rows |-> 0, success_count |-> 0])
               /\ uploads' = Append(uploads, request @@ [pc |-> "processing",
                                                         file_id |-> Len(feedback_files) + 1])
          ELSE /\ uploads' = Append(uploads, request @@ [pc |-> "processing", file_id |-> 0])
               /\ UNCHANGED feedback_files
  /\ UNCHANGED <<ML_AVAILABLE, started, analyzer_vars, today, model_loaded, pc, outcome,
                 batch_vars, thread_vars, analytics_vars, dashboards, users>>

\* POST /upload/process from line 94 to its end; analyze_sentiment is read
\* here, at its one use
ProcessUploadEnd ==
  /\ \E u \in DOMAIN uploads :
       /\ uploads[u].pc = "processing"
       /\ \E analyze_sentiment \in BOOLEAN,
             sentiments \in [1..Len(uploads[u].df) -> {"positive", "negative"}],
             existing_texts_map \in ExistingTextsMaps(feedbacks) :
            LET request == uploads[u]
                processed_data == process_feedback_data(request.df, analyze_sentiment,
                                                        sentiments)
                handled == HandleUpload(processed_data, feedbacks, existing_texts_map,
                                        request.save_to_db, request.overwrite_duplicates)
            IN /\ feedbacks' = handled.feedbacks
               /\ IF handled.raised \/ ~request.save_to_db
                  THEN UNCHANGED feedback_files
                  ELSE \* lines 193-203
                       feedback_files' =
                         [feedback_files EXCEPT
                            ![request.file_id].status = "completed",
                            ![request.file_id].processed_rows = Len(processed_data.items),
                            ![request.file_id].success_count =
                               BagCardinality(handled.feedbacks) - BagCardinality(feedbacks)]
               /\ uploads' = [uploads EXCEPT
                                ![u].pc = IF handled.raised THEN "raised" ELSE "returned"]
  /\ UNCHANGED <<ML_AVAILABLE, started, analyzer_vars, today, model_loaded, pc, outcome,
                 batch_vars, thread_vars, settings, response, dashboards, users>>

\* POST /feedback stores a row with one of the texts
StoredRows == {Row(sn, NoFlight, 1, text) : sn \in {"positive"},
                                           text \in {"Good flight", "good flight"}}
AddStoredFeedback == AddFeedback(StoredRows, MaxStoredRows)

NextUpload ==
  \/ AddStoredFeedback
  \/ ProcessUploadBegin
  \/ ProcessUploadEnd

\* process_upload requests, each in two steps, on a Feedback table that
\* POST /feedback fills
SpecUpload == InitDatabase /\ [][NextUpload]_vars

\* -------------------------------------------------------------------- users
\* most accounts ever created
MaxUsers == 3

\* security.py require_admin, lines 121-137
Admins == {id \in CurrentUsers : users[id].role = "admin"}
UserIds == 1..MaxUsers
\* the ids given so far: a deleted account keeps its id
NextUserId == IF DOMAIN users = {} THEN 1
              ELSE (CHOOSE id \in DOMAIN users : \A other \in DOMAIN users : other <= id) + 1
UsersResponse(request, current_user, user_id, status_code) ==
  [kind |-> "users", request |-> request, issuer |-> current_user, user_id |-> user_id,
   status_code |-> status_code]

\* POST /users, users.py create_user (admin only)
CreateUser ==
  /\ response = NoResponse
  /\ NextUserId <= MaxUsers
  /\ \E current_user \in Admins, role \in {"admin", "agent"} :
       /\ users' = (NextUserId :> [role |-> role, status |-> "active"]) @@ users
       /\ response' = UsersResponse("create", current_user, NextUserId, 200)
  /\ UNCHANGED <<ML_AVAILABLE, started, analyzer_vars, today, model_loaded, pc, outcome,
                 batch_vars, thread_vars, feedbacks, settings, feedback_files, uploads,
                 dashboards>>

\* PUT /users/{user_id}, users.py lines 142-171; "unset" is a field the
\* request leaves out (or gives as null)
UpdateUser ==
  /\ response = NoResponse
  /\ \E current_user \in Admins, user_id \in UserIds,
        role \in {"unset", "admin", "agent"}, status \in {"unset", "active", "inactive"} :
       IF user_id \notin DOMAIN users
       THEN /\ response' = UsersResponse("update", current_user, user_id, 404)
            /\ UNCHANGED users
       ELSE /\ users' = [users EXCEPT
                           ![user_id].role = IF role = "unset" THEN @ ELSE role,
                           ![user_id].status = IF status = "unset" THEN @ ELSE status]
            /\ response' = UsersResponse("update", current_user, user_id, 200)
  /\ UNCHANGED <<ML_AVAILABLE, started, analyzer_vars, today, model_loaded, pc, outcome,
                 batch_vars, thread_vars, feedbacks, settings, feedback_files, uploads,
                 dashboards>>

\* DELETE /users/{user_id}, users.py lines 183-200
DeleteUser ==
  /\ response = NoResponse
  /\ \E current_user \in Admins, user_id \in UserIds :
       IF user_id = current_user
       THEN /\ response' = UsersResponse("delete", current_user, user_id, 400)
            /\ UNCHANGED users
       ELSE IF user_id \notin DOMAIN users
       THEN /\ response' = UsersResponse("delete", current_user, user_id, 404)
            /\ UNCHANGED users
       ELSE /\ users' = [id \in DOMAIN users \ {user_id} |-> users[id]]
            /\ response' = UsersResponse("delete", current_user, user_id, 200)
  /\ UNCHANGED <<ML_AVAILABLE, started, analyzer_vars, today, model_loaded, pc, outcome,
                 batch_vars, thread_vars, feedbacks, settings, feedback_files, uploads,
                 dashboards>>

\* POST /users/{user_id}/toggle-status, users.py lines 253-271
ToggleUserStatus ==
  /\ response = NoResponse
  /\ \E current_user \in Admins, user_id \in UserIds :
       IF user_id = current_user
       THEN /\ response' = UsersResponse("toggle-status", current_user, user_id, 400)
            /\ UNCHANGED users
       ELSE IF user_id \notin DOMAIN users
       THEN /\ response' = UsersResponse("toggle-status", current_user, user_id, 404)
            /\ UNCHANGED users
       ELSE /\ users' = [users EXCEPT ![user_id].status =
                            IF @ = "active" THEN "inactive" ELSE "active"]
            /\ response' = UsersResponse("toggle-status", current_user, user_id, 200)
  /\ UNCHANGED <<ML_AVAILABLE, started, analyzer_vars, today, model_loaded, pc, outcome,
                 batch_vars, thread_vars, feedbacks, settings, feedback_files, uploads,
                 dashboards>>

NextUsers ==
  \/ CreateUser
  \/ UpdateUser
  \/ DeleteUser
  \/ ToggleUserStatus
  \/ Respond

\* the user management requests of the admins, one at a time
SpecUsers == InitDatabase /\ [][NextUsers]_vars

\* --------------------------------------------------------------- dashboards
\* most rows of the Dashboard table
MaxDashboards == 3

\* the update of lines 151-154 and 199-203: is_default is cleared on the
\* default dashboards of user_id, but for the dashboard except
UnsetDefaults(table, user_id, except) ==
  [d \in DOMAIN table |->
     IF table[d].user_id = user_id /\ table[d].is_default /\ d # except
     THEN [table[d] EXCEPT !.is_default = FALSE]
     ELSE table[d]]

\* POST /dashboards, dashboards.py lines 149-174
CreateDashboard ==
  /\ Len(dashboards) < MaxDashboards
  /\ \E current_user \in CurrentUsers, is_default, is_public \in BOOLEAN :
       dashboards' =
         Append(IF is_default THEN UnsetDefaults(dashboards, current_user, 0) ELSE dashboards,
                [user_id |-> current_user, is_default |-> is_default,
                 is_public |-> is_public])
  /\ UNCHANGED <<ML_AVAILABLE, started, analyzer_vars, today, model_loaded, pc, outcome,
                 batch_vars, thread_vars, analytics_vars, feedback_files, uploads, users>>

\* PUT /dashboards/{dashboard_id}, dashboards.py lines 187-214, for a request
\* that sets is_default; a dashboard that is not stored is a 404 and a
\* foreign one a 403 for an agent, which change nothing
UpdateDashboard ==
  /\ \E current_user \in CurrentUsers, dashboard_id \in DOMAIN dashboards,
        is_default \in BOOLEAN :
       /\ \/ users[current_user].role \in {"admin", "supervisor"}
          \/ dashboards[dashboard_id].user_id = current_user
       /\ dashboards' =
            [(IF is_default THEN UnsetDefaults(dashboards, current_user, dashboard_id)
              ELSE dashboards) EXCEPT ![dashboard_id].is_default = is_default]
  /\ UNCHANGED <<ML_AVAILABLE, started, analyzer_vars, today, model_loaded, pc, outcome,
                 batch_vars, thread_vars, analytics_vars, feedback_files, uploads, users>>

\* GET /dashboards/default, dashboards.py lines 76-111: the user's default,
\* else a public default, else a default dashboard is created
GetDefaultDashboard ==
  /\ \E current_user \in CurrentUsers :
       IF \/ \E d \in DOMAIN dashboards :
               dashboards[d].user_id = current_user /\ dashboards[d].is_default
          \/ \E d \in DOMAIN dashboards : dashboards[d].is_public /\ dashboards[d].is_default
       THEN UNCHANGED dashboards
       ELSE /\ Len(dashboards) < MaxDashboards
            /\ dashboards' = Append(dashboards, [user_id |-> current_user,
                                                 is_default |-> TRUE, is_public |-> FALSE])
  /\ UNCHANGED <<ML_AVAILABLE, started, analyzer_vars, today, model_loaded, pc, outcome,
                 batch_vars, thread_vars, analytics_vars, feedback_files, uploads, users>>

NextDashboards ==
  \/ CreateUser
  \/ Respond
  \/ CreateDashboard
  \/ UpdateDashboard
  \/ GetDefaultDashboard

\* the dashboard requests of the admin and of the users the admin creates,
\* one at a time
SpecDashboards == InitDatabase /\ [][NextDashboards]_vars

\* ------------------------------------------------------------------ claims
Labels == {"positive", "negative", "neutral"}
\* the last analyze call returned a result
Analyzed == outcome.status = "returned"
\* the result was computed by analyze_rule_based
RulePath == Analyzed /\ outcome.scorer = "rule"
AnalyzedWords == outcome.text.words

\* the strong negative words the specification names for the override
StrongNegativeTerms == strong_negatives \ {"bad"}

ConnectiveThenStrongNegative(ws) ==
  \E i, k \in 1..Len(ws) : i < k /\ ws[i] \in Connectives /\ ws[k] \in StrongNegativeTerms

\* C1: an English or Mixed text with a contrastive connective followed later
\* by a strong negative word is classified negative, on the rule-based and
\* on the ML-backed path.
C1_StrongNegativeAfterConnective ==
  (Analyzed /\ outcome.language \in {"EN", "Mixed"}
     /\ ConnectiveThenStrongNegative(AnalyzedWords))
  => outcome.sentiment = "negative"

\* the negative words that are not overriding strong negative terms: "bad",
\* the word of the specification's examples, and the words on no strong list
NonOverriding == negative_words_en \ (StrongNegativeTerms \cup strong_negative_words)

\* C2: positive word + connective + negative word that is not an overriding
\* strong negative term is classified neutral on both paths ("good but bad").
C2_BalancedMixedIsNeutral ==
  (Analyzed /\ Len(AnalyzedWords) = 3
     /\ AnalyzedWords[1] \in positive_words_en
     /\ AnalyzedWords[2] \in Connectives
     /\ AnalyzedWords[3] \in NonOverriding)
  => outcome.sentiment = "neutral"

\* the dictionary words analyze_rule_based scores for the detected language
ScoredWords(ws, language, arabic, english) ==
  (IF language \in {"AR", "Mixed"} THEN arabic \cap WordSet(ws) ELSE {})
  \cup (IF language \in {"EN", "Mixed"} THEN english \cap WordSet(ws) ELSE {})

\* exactly one positive and one negative dictionary word, no negation word
\* and no connective
OnePositiveOneNegative(ws, language) ==
  /\ Cardinality(ScoredWords(ws, language, positive_words_ar, positive_words_en)) = 1
  /\ Cardinality(ScoredWords(ws, language, negative_words_ar, negative_words_en)) = 1
  /\ ~Has(ws, negation_words_en \cup negation_words_ar)
  /\ ~Has(ws, Connectives)

DecidedByScores ==
  /\ RulePath
  /\ ~(outcome.language \in {"EN", "Mixed"}
       /\ (ButStrongNegative(AnalyzedWords) \/ "mediocre" \in WordSet(AnalyzedWords)))
AnalyzedScores == Scores(AnalyzedWords, outcome.language)

\* C4, as stated: positive or negative is declared only when that score
\* exceeds both other scores by at least 0.5 (one half point); otherwise the
\* result is neutral.
C4_WinnerLeadsBothOthers ==
  DecidedByScores =>
    /\ outcome.sentiment = "positive" =>
         /\ AnalyzedScores.positive >= AnalyzedScores.negative + 1
         /\ AnalyzedScores.positive >= AnalyzedScores.neutral + 1
    /\ outcome.sentiment = "negative" =>
         /\ AnalyzedScores.negative >= AnalyzedScores.positive + 1
         /\ AnalyzedScores.negative >= AnalyzedScores.neutral + 1

\* C4, amended: positive or negative is declared only when that score exceeds
\* the opposite polarity's score by at least 0.5; equal positive and negative
\* scores (all-zero included) give neutral.  The neutral score is not
\* compared.
C4_WinnerLeadsOpposite ==
  DecidedByScores =>
    /\ outcome.sentiment = "positive" =>
         AnalyzedScores.positive >= AnalyzedScores.negative + 1
    /\ outcome.sentiment = "negative" =>
         AnalyzedScores.negative >= AnalyzedScores.positive + 1
    /\ AnalyzedScores.positive = AnalyzedScores.negative => outcome.sentiment = "neutral"

\* a polarity is declared although the neutral score is the highest
C4_Witness ==
  /\ DecidedByScores
  /\ outcome.sentiment = "positive"
  /\ AnalyzedScores.neutral > AnalyzedScores.positive
  /\ AnalyzedScores.positive > AnalyzedScores.negative

SentimentWords ==
  positive_words_en \cup negative_words_en \cup neutral_words_en
  \cup positive_words_ar \cup negative_words_ar \cup neutral_words_ar

\* the only sentiment word of ws is a word of S, directly after a negation
OnlyNegated(ws, S) ==
  \E i \in 1..(Len(ws) - 1) :
     /\ ws[i] \in negation_words_en /\ ws[i + 1] \in S
     /\ \A j \in (1..Len(ws)) \ {i + 1} : ws[j] \notin SentimentWords

\* C5: with or without an ML model, a text whose only sentiment word is a
\* negated positive word is negative, and one whose only sentiment word is a
\* negated negative word is not negative.
C5_NegationFlipsPolarity ==
  (Analyzed /\ outcome.language = "EN") =>
    /\ OnlyNegated(AnalyzedWords, positive_words_en) => outcome.sentiment = "negative"
    /\ OnlyNegated(AnalyzedWords, negative_words_en) => outcome.sentiment # "negative"

\* C6: the sentiment of every analyze result, and of every element of
\* analyze_batch, is one of positive, negative, neutral.
C6_SentimentIsLabel ==
  /\ Analyzed => outcome.sentiment \in Labels
  /\ \A i \in 1..Len(results) : results[i].sentiment \in Labels

\* an ML prediction that reaches the caller as it was mapped
C6_Witness ==
  /\ Analyzed /\ outcome.scorer = "ml"
  /\ AnalyzedWords = <<"food">>
  /\ outcome.sentiment = "neutral" /\ outcome.confidence = 500

EmptyOrBlank(input) == input.kind = "blank" \/ input = TextInput(<<>>)

\* C7: analyze never raises, and empty or whitespace-only text is neutral
\* with low confidence, with or without an ML model.
C7_NeverRaisesEmptyIsNeutral ==
  outcome.status # "idle" =>
    /\ outcome.status = "returned"
    /\ EmptyOrBlank(outcome.text) =>
         outcome.sentiment = "neutral" /\ outcome.confidence <= 500

\* analyze raises on this input
Raises(input) == input.kind = "none"

\* C8: analyze_batch returns one result per text, in order; an item that
\* raises yields a neutral zero-confidence placeholder with an error note,
\* and the later items are still analysed.
C8_BatchOneResultPerText ==
  /\ Len(results) <= Len(batch_texts)
  /\ pc = "returned" => Len(results) = Len(batch_texts)
  /\ \A i \in 1..Len(results) :
       /\ results[i].text = batch_texts[i]
       /\ results[i].error = Raises(batch_texts[i])
       /\ results[i].error =>
            results[i].sentiment = "neutral" /\ results[i].confidence = 0

\* a returned batch whose first item raised and whose second was analysed
C8_Witness ==
  /\ pc = "returned" /\ Len(batch_texts) >= 2
  /\ Raises(batch_texts[1])
  /\ results[1].error /\ ~results[2].error
  /\ results[2].text = batch_texts[2]

\* C9: a result computed by the rule-based scorer carries a rule-based tag,
\* and only results derived from an ML prediction carry the hybrid tag.
C9_TagNamesScorer ==
  Analyzed =>
    /\ outcome.scorer = "rule" =>
         outcome.model_version.kind \in {"rule-based-v2", "rule-based-v2-enhanced"}
    /\ outcome.model_version.kind = "hybrid-sentiment" => outcome.scorer = "ml"

\* C10: once a load_model call has completed, no operation changes the
\* pipelines or the model_version.
C10_LoadedOnceImmutable == [][model_loaded => UNCHANGED analyzer_vars]_vars

\* C11: under every interleaving of analyze calls with each other and with a
\* load_model call, every analyze call returns a result with one of the
\* three labels for its own text, and none raises.
C11_ConcurrentAnalyzeIsSafe ==
  \A t \in DOMAIN calls :
     /\ calls[t].pc # "raised"
     /\ calls[t].pc = "returned" => calls[t].sentiment \in Labels

\* a rating or weighted route ranking has been returned
RankedByScore ==
  response.kind = "top_routes" /\ response.sort_by \in {"rating", "weighted"}

\* C12 (as stated): in the rating and the weighted route rankings no route
\* with fewer than min_reviews records appears in the returned list.
C12_BelowThresholdNeverRanked ==
  RankedByScore =>
    \A i \in DOMAIN response.routes : response.routes[i].total >= response.min_reviews

\* C12 (amended): in the rating and the weighted ranking of the endpoint a
\* route with fewer than min_reviews records never precedes a route that
\* meets the threshold: such routes follow the qualifying ones, flagged
\* meets_threshold false and ordered by volume; the ranking of the report
\* service leaves them out.
C12_BelowThresholdRankedLast ==
  RankedByScore =>
    LET routes == response.routes
    IN /\ \A i \in DOMAIN routes :
            routes[i].meets_threshold = (routes[i].total >= response.min_reviews)
       /\ response.source = "report" => \A i \in DOMAIN routes : routes[i].meets_threshold
       /\ \A i, j \in DOMAIN routes :
            i < j => /\ routes[j].meets_threshold => routes[i].meets_threshold
                     /\ ~routes[i].meets_threshold => routes[i].total >= routes[j].total

\* the endpoint returned a qualifying route followed by one below min_reviews
C12_Witness ==
  /\ RankedByScore /\ response.source = "endpoint"
  /\ Len(response.routes) = 2
  /\ response.routes[1].meets_threshold
  /\ ~response.routes[2].meets_threshold
  /\ response.routes[2].avg_rating > response.routes[1].avg_rating

\* the table holds exactly 10 records of MS777, 8 positive, 1 neutral and 1
\* negative, and the weighted ranking was requested with min_reviews = 5
MS777Scenario ==
  /\ feedbacks = [r \in {Row(sn, "MS777", 1, {}) : sn \in Sentiments} |->
                    IF r.sentiment = "positive" THEN 8 ELSE 1]
  /\ response.kind = "top_routes" /\ response.source = "endpoint"
  /\ response.sort_by = "weighted" /\ response.min_reviews = 5

\* C13 (as stated): in the MS777 scenario the weighted ranking contains
\* MS777 with wilson_score greater than 0.5, confidence medium and
\* meets_threshold true.
C13_MS777WilsonAboveHalf ==
  MS777Scenario =>
    \E i \in DOMAIN response.routes :
       /\ response.routes[i].route = "MS777"
       /\ response.routes[i].wilson_score > 5000
       /\ response.routes[i].confidence = "medium"
       /\ response.routes[i].meets_threshold

\* C13 (amended): in the MS777 scenario the weighted ranking is the single
\* entry MS777 with total 10, wilson_score 0.4902 (below 0.5), confidence
\* medium and meets_threshold true.
C13_MS777WilsonIs4902 ==
  MS777Scenario =>
    /\ Len(response.routes) = 1
    /\ response.routes[1].route = "MS777"
    /\ response.routes[1].total = 10
    /\ response.routes[1].wilson_score = 4902
    /\ response.routes[1].confidence = "medium"
    /\ response.routes[1].meets_threshold

C13_Witness == MS777Scenario /\ Len(response.routes) = 1

\* the tier a confidence label names, whatever its capitals
Tier(label) ==
  IF label \in {"low", "Low"} THEN "low"
  ELSE IF label \in {"medium", "Medium"} THEN "medium"
  ELSE IF label \in {"high", "High"} THEN "high"
  ELSE label

\* C14: for every route with n records and every accepted min_reviews, the
\* confidence label is low if and only if n is below min_reviews, high only
\* if n >= 50 and medium otherwise, in the endpoint and in the report
\* service; a route labelled high or medium meets the threshold.
C14_ConfidenceFollowsMinReviews ==
  response.kind = "top_routes" =>
    \A i \in DOMAIN response.routes :
       LET e == response.routes[i]
           n == e.total
       IN /\ Tier(e.confidence) \in {"low", "medium", "high"}
          /\ Tier(e.confidence) = "low" <=> n < response.min_reviews
          /\ Tier(e.confidence) = "high" => n >= 50
          /\ Tier(e.confidence) \in {"high", "medium"} => e.meets_threshold

\* C15: a request for an N-month NPS trend returns a gap-free chronological
\* timeline with exactly one entry per calendar month of the window (the N
\* months asked for, or the last N months of the date range given), months
\* without records being present with nps null and has_data false; a
\* 6-month request over zero underlying data returns exactly 6 entries, all
\* with has_data false.
C15_HistoryTimelineIsComplete ==
  response.kind = "nps_history" =>
    LET history == response.body.history
        span == response.date_to - response.date_from + 1
        window == IF response.date_from = NoDate \/ span > response.months
                  THEN response.months ELSE span
    IN /\ Len(history) = window
       /\ \A i \in 1..(Len(history) - 1) : history[i + 1].month = history[i].month + 1
       /\ \A i \in DOMAIN history :
            (\A r \in DOMAIN feedbacks : r.feedback_date # history[i].month)
              => history[i].nps = None /\ ~history[i].has_data

\* the NPS values of the response: the overall score of the report, of the
\* endpoint and of its previous period, the score of every month of the
\* report and of the history, and the history's summary
NpsValues ==
  IF response.kind = "report"
  THEN {response.nps.nps_score}
         \cup {response.monthly_nps[i].nps_score : i \in DOMAIN response.monthly_nps}
  ELSE IF response.kind = "nps_score"
  THEN {response.body.nps_score, response.body.previous_nps}
  ELSE IF response.kind = "nps_history"
  THEN LET history == response.body.history
           summary == response.body.summary
           given == {history[i].nps : i \in DOMAIN history}
                      \cup {summary.avg_nps, summary.max_nps, summary.min_nps}
       IN {v[1] : v \in given \ {None}}
  ELSE {}

\* C16: for every sentiment distribution every NPS value the system
\* computes (overall score, per-month history entry, report) lies in the
\* range -100 to 100 inclusive.
C16_NpsWithinRange == \A v \in NpsValues : -100 <= v /\ v <= 100

\* a month of the history reaches an end of the range while the table holds
\* all three sentiments
C16_Witness ==
  /\ response.kind = "nps_history"
  /\ \E v \in NpsValues : v = -100
  /\ \E v \in NpsValues : v > 0
  /\ \A sn \in Sentiments : WithSentiment(feedbacks, sn) > 0

\* C17: every percentage or ratio computed over an empty denominator (zero
\* total feedback for the NPS, CSAT and sentiment percentages, zero negative
\* feedback for the complaint percentages) is 0, and the computation does
\* not raise.
C17_EmptyDenominatorYieldsZero ==
  /\ response.kind = "report" =>
       /\ response.nps # ZeroDivisionError /\ response.csat # ZeroDivisionError
       /\ response.stats.total = 0 =>
            /\ response.stats.positive_pct = 0 /\ response.stats.negative_pct = 0
            /\ response.stats.neutral_pct = 0
            /\ response.nps.nps_score = 0 /\ response.nps.promoter_pct = 0
            /\ response.nps.passive_pct = 0 /\ response.nps.detractor_pct = 0
            /\ response.csat.csat_score = 0
            /\ response.monthly_nps = <<>>
  /\ response.kind = "nps_score" =>
       /\ response.body # ZeroDivisionError
       /\ response.body.total_responses = 0 =>
            /\ response.body.nps_score = 0 /\ response.body.promoter_pct = 0
            /\ response.body.passive_pct = 0 /\ response.body.detractor_pct = 0
       /\ PreviousCounts(feedbacks, response.use_date_filter, response.start_date,
                         response.end_date).total = 0 => response.body.previous_nps = 0
  /\ response.kind = "csat_score" =>
       /\ response.body # ZeroDivisionError
       /\ response.body.total_count = 0 => response.body.csat_score = 0
       /\ PreviousCounts(feedbacks, response.use_date_filter, response.start_date,
                         response.end_date).total = 0 => response.body.previous_score = 0
  /\ response.kind = "nps_history" =>
       /\ response.body # ZeroDivisionError
       /\ \A i \in DOMAIN response.body.history :
            response.body.history[i].total_responses = 0 =>
              /\ response.body.history[i].promoters_pct = 0
              /\ response.body.history[i].detractors_pct = 0
  /\ response.kind = "complaints" =>
       /\ response.categories # ZeroDivisionError
       /\ response.negative = 0 =>
            \A i \in DOMAIN response.categories : response.categories[i].percentage = 0

\* a report over a period without any of the table's rows: zero total
C17_Witness ==
  /\ response.kind = "report"
  /\ feedbacks # EmptyBag
  /\ response.stats.total = 0
  /\ response.csat.csat_score = 0 /\ response.csat.status = "N/A"
  /\ response.nps.nps_score = 0

\* C18: the CSAT status label is produced by comparing the CSAT score with
\* the configured csat_threshold: for every threshold setting the label is
\* satisfactory (Good or Excellent) exactly when csat_score is at least the
\* threshold, that is, when meets_threshold is true.
C18_StatusFollowsThreshold ==
  response.kind = "report" =>
    /\ response.csat.threshold = settings.csat_threshold
    /\ response.csat.meets_threshold
         = (response.stats.total > 0 /\ response.csat.csat_score >= 10 * settings.csat_threshold)
    /\ response.csat.status \in {"Good", "Excellent"} <=> response.csat.meets_threshold

\* C19: each complaint category's reported percentage is its match count
\* divided by the total number of negative feedback records analysed, in the
\* endpoint and in the report service.
C19_PercentageOfNegativeTotal ==
  response.kind = "complaints" =>
    \A i \in DOMAIN response.categories :
       /\ response.negative > 0
       /\ response.categories[i].percentage
            = Pct(response.categories[i].count, response.negative)

\* the rows of the table without feedback_date, and how many there are
Undated == {r \in DOMAIN feedbacks : r.feedback_date = NoDate}
DatedCount == BagCardinality(feedbacks) - CountRows(feedbacks, Undated)

\* C20: a feedback record with a missing date is excluded from every
\* date-bucketed aggregate (daily trend, monthly NPS) while still being
\* counted in the overall NPS/CSAT totals, and its presence never aborts the
\* computation.
C20_UndatedOnlyInOverallTotals ==
  response.kind = "report" =>
    /\ \A i \in DOMAIN response.monthly_nps : response.monthly_nps[i].month # NoDate
    /\ Sum([i \in DOMAIN response.monthly_nps |-> response.monthly_nps[i].total]) <= DatedCount
    /\ \A i \in DOMAIN response.trend_data.dates : response.trend_data.dates[i] # NoDate
    /\ Sum(response.trend_data.total) <= DatedCount
    /\ response.stats.total >= CountRows(feedbacks, Undated)

\* the characters of the analysed text in the Arabic block, and its Latin
\* letters
ArabicLetters ==
  Sum([i \in DOMAIN AnalyzedWords |->
         IF AnalyzedWords[i] \in ArabicVocab THEN WordLen(AnalyzedWords[i]) ELSE 0])
LatinLetters ==
  Sum([i \in DOMAIN AnalyzedWords |->
         IF AnalyzedWords[i] \in EnglishVocab THEN WordLen(AnalyzedWords[i]) ELSE 0])

\* C21: the language analyze reports depends only on the two counts: AR
\* exactly when the Arabic characters are more than 70% of the Arabic and
\* Latin ones, EN exactly when they are fewer than 30% or there are none,
\* Mixed otherwise, whatever the sentiment result.
C21_LanguageFollowsLetterRatio ==
  Analyzed =>
    LET a == ArabicLetters
        total == ArabicLetters + LatinLetters
    IN /\ outcome.language = "AR" <=> (total > 0 /\ 10 * a > 7 * total)
       /\ outcome.language = "EN" <=> (total = 0 \/ 10 * a < 3 * total)
       /\ outcome.language = "Mixed" <=>
            (total > 0 /\ 10 * a <= 7 * total /\ 10 * a >= 3 * total)

\* a text of exactly 70% Arabic characters is reported Mixed
C21_Witness ==
  /\ Analyzed
  /\ 10 * ArabicLetters = 7 * (ArabicLetters + LatinLetters)
  /\ LatinLetters > 0
  /\ outcome.language = "Mixed"

\* the analysis reached the weighted decision for long texts: the pipeline
\* answered, the text is not Arabic, has at least fifty words and met neither
\* of the two early returns
LongDecided ==
  /\ Analyzed /\ outcome.scorer = "ml" /\ outcome.language # "AR"
  /\ Len(AnalyzedWords) >= LongTextThreshold
  /\ ~Has(AnalyzedWords, strong_negative_words)
  /\ ~is_explicit_neutral(AnalyzedWords)
PosScore == pos_score(AnalyzedWords)
NegScore == neg_score(AnalyzedWords)
\* the smaller score is at least half of the larger one
MinorityAtLeastHalf ==
  /\ Max(PosScore, NegScore) > 0
  /\ 2 * Min(PosScore, NegScore) >= Max(PosScore, NegScore)

\* C22: in the weighted long-text decision the result is neutral whenever
\* the smaller of the weighted positive and negative scores is at least 50%
\* of the larger one, or an explicit neutral phrase is present, regardless of
\* the absolute size of the score difference.
C22_BalancedLongTextIsNeutral ==
  (LongDecided /\ (MinorityAtLeastHalf \/ has_neutral_phrase(AnalyzedWords)))
    => outcome.sentiment = "neutral"

\* C23: in the weighted long-text decision, when the scores are not balanced
\* and no neutral phrase is present, the declared sentiment is the polarity
\* with the larger weighted score, whatever the ML model predicted.
C23_UnbalancedLongTextTakesMajority ==
  (LongDecided /\ ~MinorityAtLeastHalf /\ ~has_neutral_phrase(AnalyzedWords))
    => /\ PosScore > NegScore => outcome.sentiment = "positive"
       /\ NegScore > PosScore => outcome.sentiment = "negative"

\* the Arabic key word verification decided the analysis: the pipeline
\* answered, the text is Arabic and met neither of the two early returns
ArabicVerified ==
  /\ Analyzed /\ outcome.scorer = "ml" /\ outcome.language = "AR"
  /\ ~Has(AnalyzedWords, strong_negative_words)
  /\ ~is_explicit_neutral(AnalyzedWords)
\* the key words of each list the text holds
PositiveMatches == Cardinality(strong_positive_ar \cap WordSet(AnalyzedWords))
NegativeMatches == Cardinality(strong_negative_ar \cap WordSet(AnalyzedWords))
NeutralMatches == Cardinality(neutral_ar \cap WordSet(AnalyzedWords))
\* a listed positive word with a negation particle inside the eight
\* characters before it
NegatedPositiveAr ==
  \E i \in DOMAIN AnalyzedWords :
     /\ AnalyzedWords[i] \in negatable_positive_ar
     /\ \E j \in 1..(i - 1) :
          /\ AnalyzedWords[j] \in direct_negation_ar
          /\ StartOf(AnalyzedWords, j) >= StartOf(AnalyzedWords, i) - ArabicAdjacentWindow
\* what the pipeline can answer
Answers == {o \in MLOutputs : ~o.raises}
\* the analysis of the same text returns the same label whatever the
\* pipeline answers
LabelIgnoresML ==
  \A o \in Answers : analyze(outcome.text, TRUE, o).sentiment = outcome.sentiment
\* the analysis of the same text returns the mapped ML label, its confidence
\* cut to 60%
MLPassedThrough ==
  \A o \in Answers :
     LET r == analyze(outcome.text, TRUE, o)
     IN r.sentiment = MapLabel(o.label, o.score) /\ r.confidence = Min(o.score, 600)

\* C24: in Arabic keyword verification the returned label does not depend on
\* the ML prediction whenever keyword evidence is strong (at least two
\* keyword matches of one polarity) or a listed positive word is preceded
\* within 8 characters by a negation particle (in which case the label is
\* negative); the ML label is passed through only when no keyword matches,
\* with confidence capped at 60%.
C24_ArabicKeywordsOverrideML ==
  ArabicVerified =>
    /\ (PositiveMatches >= 2 \/ NegativeMatches >= 2) => LabelIgnoresML
    /\ NegatedPositiveAr => (LabelIgnoresML /\ outcome.sentiment = "negative")
    /\ PositiveMatches + NegativeMatches + NeutralMatches > 0 => LabelIgnoresML
    /\ (PositiveMatches + NegativeMatches + NeutralMatches = 0 /\ ~NegatedPositiveAr)
         => MLPassedThrough

\* C25: for the same set of feedback records, the CSAT score computed for
\* reports equals the CSAT score computed by the dashboard endpoint (positive
\* count / total x 100), including when some records carry no sentiment
\* label.
C25_ReportCsatEqualsEndpointCsat ==
  /\ response.kind = "report" =>
       LET filtered == response.date_from # NoDate /\ response.date_to # NoDate
           unfiltered == response.date_from = NoDate /\ response.date_to = NoDate
       IN (filtered \/ unfiltered) =>
            response.csat.csat_score
              = get_csat_score(feedbacks, filtered, response.date_from,
                               response.date_to).csat_score
  /\ response.kind = "csat_score" =>
       LET date_from == IF response.use_date_filter THEN response.start_date ELSE NoDate
           date_to == IF response.use_date_filter THEN response.end_date ELSE NoDate
       IN response.body.csat_score
            = calculate_csat(get_filtered_feedback(feedbacks, date_from, date_to).stats,
                             settings).csat_score

\* the process_upload requests that have ended, with a response or an error
Ended == {u \in DOMAIN uploads : uploads[u].pc \in {"returned", "raised"}}

\* C26: every FeedbackFile record that an upload creates in status
\* processing reaches a terminal status (completed or failed): no
\* process_upload request can end, normally or with an error, while leaving
\* its committed record in status processing.
C26_EndedUploadLeavesTerminalStatus ==
  \A u \in Ended :
     uploads[u].file_id # 0
       => feedback_files[uploads[u].file_id].status \in {"completed", "failed"}

\* the rows a step adds to the Feedback table
Inserted == {r \in DOMAIN feedbacks' :
               CopiesIn(r, feedbacks') > (IF r \in DOMAIN feedbacks THEN CopiesIn(r, feedbacks)
                                          ELSE 0)}
\* the step belongs to a process_upload request
UploadStep == uploads' # uploads

DryRunStep ==
  \/ /\ Len(uploads') > Len(uploads)
     /\ ~uploads'[Len(uploads')].save_to_db
  \/ \E u \in DOMAIN uploads : uploads'[u] # uploads[u] /\ ~uploads[u].save_to_db

\* C28: when process_upload is called with save_to_db = false, the database
\* is left unchanged: no Feedback or FeedbackFile row is inserted, updated or
\* deleted, whatever the value of overwrite_duplicates.
C28_DryRunLeavesDatabaseUnchanged ==
  [][DryRunStep => UNCHANGED <<feedbacks, feedback_files>>]_vars
\* a request with save_to_db = false and overwrite_duplicates = true has
\* ended on a file that holds a text of the table
C28_Witness ==
  \E u \in Ended :
     /\ ~uploads[u].save_to_db /\ uploads[u].overwrite_duplicates
     /\ \E i \in DOMAIN uploads[u].df, r \in DOMAIN feedbacks :
          TextLen(uploads[u].df[i]) >= 10 /\ Normalized(uploads[u].df[i]) = Normalized(r.text)

\* the dashboards user_id owns that are marked default
DefaultsOf(user_id) ==
  {d \in DOMAIN dashboards : dashboards[d].user_id = user_id /\ dashboards[d].is_default}

\* C29: after any sequence of dashboard create, update and get-default
\* requests by any users (including an admin or supervisor updating another
\* user's dashboard), each user owns at most one dashboard with
\* is_default = true.
C29_AtMostOneDefaultPerUser ==
  \A user_id \in UserIds : Cardinality(DefaultsOf(user_id)) <= 1

\* C30: no user-management request lets an admin delete or deactivate their
\* own account: after any request issued by an admin (delete, toggle-status
\* or update), the issuing admin's account still exists and is still active.
C30_IssuingAdminStaysActive ==
  (response.kind = "users" /\ response.request \in {"delete", "toggle-status", "update"})
    => /\ response.issuer \in DOMAIN users
       /\ users[response.issuer].status = "active"
====
